---- MODULE Spec2Model ----
(***************************************************************************)
(* Model of scripts/reorganize_tests.py: the locator (find_test_modules),  *)
(* the relocator (extract_test_body, create_tests_file,                    *)
(* replace_test_module_with_mod_reference) and the driver                  *)
(* (process_workspace).                                                    *)
(*                                                                         *)
(* Text is a sequence of one-character strings, as Python's text mode      *)
(* hands it to the script (decoded, line ends already "\n").  A path is a  *)
(* sequence of components, each component a text.  The file system is a    *)
(* function from the paths of the existing files to their contents, plus   *)
(* the set of existing directories.                                        *)
(***************************************************************************)
EXTENDS Integers, Sequences, FiniteSets, TLC

(***************************************************************************)
(* Characters and character classes (str.strip, \s and \w of module re).   *)
(***************************************************************************)
NL == "\n"
QUOTE == "\""
APOS == "'"
BACKSLASH == "\\"
LBRACE == "{"
RBRACE == "}"

IsSpace(c) == c \in {" ", "\t", "\n"}

Letters ==
  {"a","b","c","d","e","f","g","h","i","j","k","l","m",
   "n","o","p","q","r","s","t","u","v","w","x","y","z"}
Digits == {"0","1","2","3","4","5","6","7","8","9"}
IsWord(c) == c \in Letters \cup Digits \cup {"_"}

(***************************************************************************)
(* String primitives of Python used by the script.                         *)
(***************************************************************************)
\* s[a:b] with 1-based inclusive bounds, empty when a > b
Slice(s, a, b) == IF a > b THEN <<>> ELSE SubSeq(s, a, b)

\* s.startswith(p) from position i (1-based)
StartsWithAt(s, p, i) ==
  /\ i + Len(p) - 1 <= Len(s)
  /\ \A n \in 1..Len(p) : s[i + n - 1] = p[n]

StartsWith(s, p) == StartsWithAt(s, p, 1)

EndsWith(s, p) == Len(p) <= Len(s) /\ StartsWithAt(s, p, Len(s) - Len(p) + 1)

\* the least element of a non-empty set of integers
Min(S) == CHOOSE x \in S : \A y \in S : x <= y

\* s.find(p, i): the least 1-based position >= i where p occurs, 0 if none
FindFrom(s, p, i) ==
  LET hits == {n \in i..(Len(s) - Len(p) + 1) : StartsWithAt(s, p, n)}
  IN  IF hits = {} THEN 0 ELSE Min(hits)

Contains(s, p) == FindFrom(s, p, 1) > 0

\* not s.strip(): the text holds white space only
IsBlank(s) == \A n \in 1..Len(s) : IsSpace(s[n])

\* a newline put after every part
RECURSIVE Join_WithNewlines(_)
Join_WithNewlines(parts) ==
  IF parts = <<>> THEN <<>>
  ELSE Head(parts) \o <<NL>> \o Join_WithNewlines(Tail(parts))

\* "".join(parts)
RECURSIVE Join(_)
Join(parts) ==
  IF parts = <<>> THEN <<>> ELSE Head(parts) \o Join(Tail(parts))

\* sep.join(parts) for a one-character separator
RECURSIVE JoinWith(_, _)
JoinWith(parts, sep) ==
  IF parts = <<>> THEN <<>>
  ELSE IF Len(parts) = 1 THEN parts[1]
  ELSE parts[1] \o <<sep>> \o JoinWith(Tail(parts), sep)

\* the positions of the separator in s, and the n-th of them in increasing
\* order (0 before the first, Len(s) + 1 after the last)
SepPositions(s, sep) == {i \in 1..Len(s) : s[i] = sep}

NthSep(s, sep, n) ==
  LET P == SepPositions(s, sep)
  IN  IF n = 0 THEN 0
      ELSE IF n > Cardinality(P) THEN Len(s) + 1
      ELSE CHOOSE i \in P : Cardinality({j \in P : j < i}) = n - 1

\* s.split(sep) for a one-character separator: always at least one field
Split(s, sep) ==
  [n \in 1..(Cardinality(SepPositions(s, sep)) + 1) |->
     Slice(s, NthSep(s, sep, n - 1) + 1, NthSep(s, sep, n) - 1)]

\* f.readlines(): the lines with their "\n" kept; a last line without "\n"
\* is a line too, an empty tail is not
readlines(s) ==
  LET nls == Cardinality(SepPositions(s, NL))
      count == IF NthSep(s, NL, nls) = Len(s) THEN nls ELSE nls + 1
  IN  [n \in 1..count |->
         Slice(s, NthSep(s, NL, n - 1) + 1,
               IF n <= nls THEN NthSep(s, NL, n) ELSE Len(s))]

\* s.replace(old, new): every non-overlapping occurrence, left to right
RECURSIVE ReplaceFrom(_, _, _, _)
ReplaceFrom(s, old, new, i) ==
  LET at == FindFrom(s, old, i)
  IN  IF at = 0 THEN Slice(s, i, Len(s))
      ELSE Slice(s, i, at - 1) \o new \o ReplaceFrom(s, old, new, at + Len(old))

\* the empty string occurs before every character and at the end
str_replace(s, old, new) ==
  IF old = <<>> THEN Join([n \in 1..Len(s) |-> new \o <<s[n]>>]) \o new
  ELSE ReplaceFrom(s, old, new, 1)

(***************************************************************************)
(* find_test_modules                                                       *)
(***************************************************************************)
CfgTestMarker == <<"#","[","c","f","g","(","t","e","s","t",")","]">>
ModKeyword == <<"m","o","d">>

\* re.search(r"#\[cfg\(test\)\]", line)
HasMarker(line) == Contains(line, CfgTestMarker)

\* the end (exclusive) of the longest run of characters of a class from i
SkipWhile(s, i, space) ==
  Min({n \in i..Len(s) : ~(IF space THEN IsSpace(s[n]) ELSE IsWord(s[n]))}
        \cup {Len(s) + 1})

\* the pattern without its final \s*\{
ModMatch_NoBrace(line) ==
  LET a == SkipWhile(line, 1, TRUE)
      b == a + Len(ModKeyword)
      c == SkipWhile(line, b, TRUE)
      d == SkipWhile(line, c, FALSE)
  IN  IF StartsWithAt(line, ModKeyword, a) /\ c > b /\ d > c
      THEN [ok |-> TRUE, indent |-> Slice(line, 1, a - 1),
            module_name |-> Slice(line, c, d - 1)]
      ELSE [ok |-> FALSE, indent |-> <<>>, module_name |-> <<>>]

\* re.match(r"^(\s*)mod\s+(\w+)\s*\{", next_line): the classes are disjoint
\* from what follows them, so the greedy match is the only match
ModMatch(line) ==
  LET a == SkipWhile(line, 1, TRUE)          \* (\s*)
      b == a + Len(ModKeyword)               \* mod
      c == SkipWhile(line, b, TRUE)          \* \s+
      d == SkipWhile(line, c, FALSE)         \* (\w+)
      e == SkipWhile(line, d, TRUE)          \* \s*
  IN  IF /\ StartsWithAt(line, ModKeyword, a)
         /\ c > b
         /\ d > c
         /\ e <= Len(line)
         /\ line[e] = LBRACE
      THEN [ok |-> TRUE, indent |-> Slice(line, 1, a - 1),
            module_name |-> Slice(line, c, d - 1)]
      ELSE [ok |-> FALSE, indent |-> <<>>, module_name |-> <<>>]

\* every line skipped up to the next declaration
RECURSIVE SkipBlankLines_ToDeclaration(_, _)
SkipBlankLines_ToDeclaration(lines, j) ==
  IF j <= Len(lines) /\ ~ModMatch(lines[j]).ok
  THEN SkipBlankLines_ToDeclaration(lines, j + 1)
  ELSE j

\* the blank lines after the marker not skipped
SkipBlankLines_None(lines, j) == j

\* while j < len(lines) and lines[j].strip() == "": j += 1
RECURSIVE SkipBlankLines(_, _)
SkipBlankLines(lines, j) ==
  IF j <= Len(lines) /\ IsBlank(lines[j]) THEN SkipBlankLines(lines, j + 1)
  ELSE j

\* the locator's scanner state at the declaration line
LocatorStart ==
  [brace_count |-> 0, in_string |-> FALSE, escape_next |-> FALSE,
   found_open |-> FALSE, closed |-> FALSE]

\* a backslash taken as an ordinary character
LocatorChar_NoEscape(st, char) ==
  IF char = QUOTE THEN [st EXCEPT !.in_string = ~st.in_string]
  ELSE IF st.in_string THEN st
  ELSE IF char = LBRACE
       THEN [st EXCEPT !.brace_count = st.brace_count + 1,
                       !.found_open = TRUE]
  ELSE IF char = RBRACE
       THEN [st EXCEPT !.brace_count = st.brace_count - 1,
                       !.closed = st.found_open /\ st.brace_count - 1 = 0]
  ELSE st

\* an apostrophe taken as a quote
LocatorChar_AposQuotes(st, char) ==
  IF st.escape_next THEN [st EXCEPT !.escape_next = FALSE]
  ELSE IF char = BACKSLASH THEN [st EXCEPT !.escape_next = TRUE]
  ELSE IF char \in {QUOTE, APOS} THEN [st EXCEPT !.in_string = ~st.in_string]
  ELSE IF st.in_string THEN st
  ELSE IF char = LBRACE
       THEN [st EXCEPT !.brace_count = st.brace_count + 1,
                       !.found_open = TRUE]
  ELSE IF char = RBRACE
       THEN [st EXCEPT !.brace_count = st.brace_count - 1,
                       !.closed = st.found_open /\ st.brace_count - 1 = 0]
  ELSE st

\* the block closed by the first brace that closes anything
LocatorChar_ClosesAtAnyBrace(st, char) ==
  IF st.escape_next THEN [st EXCEPT !.escape_next = FALSE]
  ELSE IF char = BACKSLASH THEN [st EXCEPT !.escape_next = TRUE]
  ELSE IF char = QUOTE THEN [st EXCEPT !.in_string = ~st.in_string]
  ELSE IF st.in_string THEN st
  ELSE IF char = LBRACE
       THEN [st EXCEPT !.brace_count = st.brace_count + 1,
                       !.found_open = TRUE]
  ELSE IF char = RBRACE
       THEN [st EXCEPT !.brace_count = st.brace_count - 1,
                       !.closed = st.found_open]
  ELSE st

\* one iteration of "for char in current_line"; closed marks the break.
\* quote_char is '"' whenever in_string holds, so the quote test toggles.
LocatorChar(st, char) ==
  IF st.escape_next THEN [st EXCEPT !.escape_next = FALSE]
  ELSE IF char = BACKSLASH THEN [st EXCEPT !.escape_next = TRUE]
  ELSE IF char = QUOTE THEN [st EXCEPT !.in_string = ~st.in_string]
  ELSE IF st.in_string THEN st
  ELSE IF char = LBRACE
       THEN [st EXCEPT !.brace_count = st.brace_count + 1,
                       !.found_open = TRUE]
  ELSE IF char = RBRACE
       THEN [st EXCEPT !.brace_count = st.brace_count - 1,
                       !.closed = st.found_open /\ st.brace_count - 1 = 0]
  ELSE st

\* the for loop over the characters a..b of a line, left to right, cut in
\* halves; nothing is read after the break
RECURSIVE LocatorRange(_, _, _, _)
LocatorRange(line, a, b, st) ==
  IF st.closed \/ a > b THEN st
  ELSE IF a = b THEN LocatorChar(st, line[a])
  ELSE LET mid == (a + b) \div 2
       IN  LocatorRange(line, mid + 1, b, LocatorRange(line, a, mid, st))

LocatorLine(line, st) == LocatorRange(line, 1, Len(line), st)

\* while k < len(lines): the 1-based line of the closing brace, 0 when the
\* lines run out first
RECURSIVE FindClose(_, _, _)
FindClose(lines, k, st) ==
  IF k > Len(lines) THEN 0
  ELSE LET s2 == LocatorLine(lines[k], st)
       IN  IF s2.closed THEN k ELSE FindClose(lines, k + 1, s2)

TestModule(file_path, module_name, start_line, end_line, content, indent) ==
  [file_path |-> file_path, module_name |-> module_name,
   start_line |-> start_line, end_line |-> end_line,
   content |-> content, indent |-> indent]

\* the scan given up at the first declaration without a closing brace
RECURSIVE FindLoop_StopsAtUnclosed(_, _, _, _)
FindLoop_StopsAtUnclosed(file_path, lines, i, acc) ==
  IF i > Len(lines) THEN acc
  ELSE IF ~HasMarker(lines[i])
       THEN FindLoop_StopsAtUnclosed(file_path, lines, i + 1, acc)
  ELSE
    LET j == SkipBlankLines(lines, i + 1)
        m == IF j <= Len(lines) THEN ModMatch(lines[j]) ELSE ModMatch(<<>>)
    IN  IF ~m.ok THEN FindLoop_StopsAtUnclosed(file_path, lines, i + 1, acc)
        ELSE
          LET k == FindClose(lines, j, LocatorStart)
          IN  IF k = 0
              THEN [acc EXCEPT !.unclosed = acc.unclosed + 1]
              ELSE FindLoop_StopsAtUnclosed(file_path, lines, k + 1,
                     [acc EXCEPT !.modules = Append(acc.modules,
                        TestModule(file_path, m.module_name, i - 1, k,
                                   Join(SubSeq(lines, i, k)), m.indent))])

\* the scan taken up again on the line after the marker of a module found
RECURSIVE FindLoop_ResumesAfterMarker(_, _, _, _)
FindLoop_ResumesAfterMarker(file_path, lines, i, acc) ==
  IF i > Len(lines) THEN acc
  ELSE IF ~HasMarker(lines[i])
       THEN FindLoop_ResumesAfterMarker(file_path, lines, i + 1, acc)
  ELSE
    LET j == SkipBlankLines(lines, i + 1)
        m == IF j <= Len(lines) THEN ModMatch(lines[j]) ELSE ModMatch(<<>>)
    IN  IF ~m.ok THEN FindLoop_ResumesAfterMarker(file_path, lines, i + 1, acc)
        ELSE
          LET k == FindClose(lines, j, LocatorStart)
          IN  IF k = 0
              THEN FindLoop_ResumesAfterMarker(file_path, lines, i + 1,
                            [acc EXCEPT !.unclosed = acc.unclosed + 1])
              ELSE FindLoop_ResumesAfterMarker(file_path, lines, i + 1,
                     [acc EXCEPT !.modules = Append(acc.modules,
                        TestModule(file_path, m.module_name, i - 1, k,
                                   Join(SubSeq(lines, i, k)), m.indent))])

\* The while loop over i (1-based here; start_line and end_line keep the
\* script's 0-based values).  acc.unclosed counts the marker/declaration
\* pairs whose scan ran off the end of the lines.
RECURSIVE FindLoop(_, _, _, _)
FindLoop(file_path, lines, i, acc) ==
  IF i > Len(lines) THEN acc
  ELSE IF ~HasMarker(lines[i]) THEN FindLoop(file_path, lines, i + 1, acc)
  ELSE
    LET j == SkipBlankLines(lines, i + 1)
        m == IF j <= Len(lines) THEN ModMatch(lines[j]) ELSE ModMatch(<<>>)
    IN  IF ~m.ok THEN FindLoop(file_path, lines, i + 1, acc)
        ELSE
          LET k == FindClose(lines, j, LocatorStart)
          IN  IF k = 0
              THEN FindLoop(file_path, lines, i + 1,
                            [acc EXCEPT !.unclosed = acc.unclosed + 1])
              ELSE FindLoop(file_path, lines, k + 1,
                     [acc EXCEPT !.modules = Append(acc.modules,
                        TestModule(file_path, m.module_name, i - 1, k,
                                   Join(SubSeq(lines, i, k)), m.indent))])

FindScan(file_path, text) ==
  FindLoop(file_path, readlines(text), 1, [modules |-> <<>>, unclosed |-> 0])

find_test_modules(file_path, text) == FindScan(file_path, text).modules

(***************************************************************************)
(* extract_test_body                                                       *)
(***************************************************************************)
\* the extractor's scanner state just after the opening brace
ExtractorStart ==
  [brace_count |-> 1, in_string |-> FALSE, escape_next |-> FALSE,
   closed |-> FALSE, close_brace_idx |-> 0]

\* one iteration of "for i in range(open_brace_idx + 1, len(content))"
ExtractorChar(st, char) ==
  IF st.escape_next THEN [st EXCEPT !.escape_next = FALSE]
  ELSE IF char = BACKSLASH THEN [st EXCEPT !.escape_next = TRUE]
  ELSE IF char = QUOTE THEN [st EXCEPT !.in_string = ~st.in_string]
  ELSE IF st.in_string THEN st
  ELSE IF char = LBRACE THEN [st EXCEPT !.brace_count = st.brace_count + 1]
  ELSE IF char = RBRACE
       THEN [st EXCEPT !.brace_count = st.brace_count - 1,
                       !.closed = (st.brace_count - 1 = 0)]
  ELSE st

\* the for loop over the characters a..b of content, left to right, cut in
\* halves; nothing is read after the break
RECURSIVE ExtractorRange(_, _, _, _)
ExtractorRange(content, a, b, st) ==
  IF st.closed \/ a > b THEN st
  ELSE IF a = b
       THEN LET s2 == ExtractorChar(st, content[a])
            IN  IF s2.closed THEN [s2 EXCEPT !.close_brace_idx = a] ELSE s2
  ELSE LET mid == (a + b) \div 2
       IN  ExtractorRange(content, mid + 1, b,
                          ExtractorRange(content, a, mid, st))

\* close_brace_idx (1-based), 0 standing for the script's -1
CloseBraceIdx(content, i, st) ==
  ExtractorRange(content, i, Len(content), st).close_brace_idx

\* the leading blank lines kept
DropLeadingBlank_Keep(lines) == lines

\* while lines and not lines[0].strip(): lines.pop(0)
RECURSIVE DropLeadingBlank(_)
DropLeadingBlank(lines) ==
  IF lines # <<>> /\ IsBlank(Head(lines)) THEN DropLeadingBlank(Tail(lines))
  ELSE lines

\* the trailing blank lines kept
DropTrailingBlank_Keep(lines) == lines

\* while lines and not lines[-1].strip(): lines.pop()
RECURSIVE DropTrailingBlank(_)
DropTrailingBlank(lines) ==
  IF lines # <<>> /\ IsBlank(lines[Len(lines)])
  THEN DropTrailingBlank(SubSeq(lines, 1, Len(lines) - 1))
  ELSE lines

\* the body of "for line in lines" of the indentation adjustment
DedentLine(line, indent) ==
  IF ~IsBlank(line) /\ StartsWith(line, indent)
  THEN Slice(line, Len(indent) + 1, Len(line))
  ELSE line

Dedent(lines, indent) ==
  IF lines # <<>> /\ indent # <<>>
  THEN [n \in 1..Len(lines) |-> DedentLine(lines[n], indent)]
  ELSE lines

\* content[open_brace_idx + 1 : close_brace_idx], the two indexes 1-based;
\* both 0 when the script returns "" early
BodySpan(content) ==
  LET open_brace_idx == FindFrom(content, <<LBRACE>>, 1)
      close_brace_idx ==
        IF open_brace_idx = 0 THEN 0
        ELSE CloseBraceIdx(content, open_brace_idx + 1, ExtractorStart)
  IN  IF close_brace_idx = 0 THEN [open |-> 0, close |-> 0]
      ELSE [open |-> open_brace_idx, close |-> close_brace_idx]

extract_test_body(test_module) ==
  LET span == BodySpan(test_module.content)
  IN  IF span.open = 0 THEN <<>>
      ELSE
        LET body == Slice(test_module.content, span.open + 1, span.close - 1)
            lines == DropTrailingBlank(DropLeadingBlank(Split(body, NL)))
        IN  JoinWith(Dedent(lines, test_module.indent), NL)

(***************************************************************************)
(* create_tests_file                                                       *)
(***************************************************************************)
IncludeStr == <<"i","n","c","l","u","d","e","_","s","t","r","!">>
IncludeBytes == <<"i","n","c","l","u","d","e","_","b","y","t","e","s","!">>
ParentPrefix == <<".",".","/">>
TestsRs == <<"t","e","s","t","s",".","r","s">>

\* the end (exclusive) of the run [^"\']* from i
SkipNonQuote(s, i) ==
  Min({n \in i..Len(s) : s[n] \in {QUOTE, APOS}} \cup {Len(s) + 1})

\* the test for "../" left out
AdjustedPath_AlwaysUp(path) ==
  IF ~StartsWith(path, <<"/">>) THEN ParentPrefix \o path ELSE path

\* adjust_include_path on the path group
AdjustedPath(path) ==
  IF ~StartsWith(path, ParentPrefix) /\ ~StartsWith(path, <<"/">>)
  THEN ParentPrefix \o path
  ELSE path

\* one attempt of (include_(?:str|bytes)!)\((["\'])([^"\']+)\2\) at i:
\* the path run is greedy and what follows it must be a quote, so the
\* longest run is the only candidate
IncludeMatchAt(s, i) ==
  LET prefix == IF StartsWithAt(s, IncludeStr, i) THEN IncludeStr
                ELSE IF StartsWithAt(s, IncludeBytes, i) THEN IncludeBytes
                ELSE <<>>
      q == i + Len(prefix) + 1               \* position of the quote
      e == SkipNonQuote(s, q + 1)            \* position after the path
  IN  IF /\ prefix # <<>>
         /\ q <= Len(s)
         /\ s[q - 1] = "("
         /\ s[q] \in {QUOTE, APOS}
         /\ e > q + 1
         /\ e + 1 <= Len(s)
         /\ s[e] = s[q]
         /\ s[e + 1] = ")"
      THEN [ok |-> TRUE, prefix |-> prefix, quote |-> s[q],
            path |-> Slice(s, q + 1, e - 1), next |-> e + 2]
      ELSE [ok |-> FALSE, prefix |-> <<>>, quote |-> QUOTE,
            path |-> <<>>, next |-> i + 1]

\* the replacement written with double quotes whatever group 2 held
RECURSIVE AdjustIncludesFrom_DoubleQuotes(_, _)
AdjustIncludesFrom_DoubleQuotes(s, i) ==
  LET hits == {n \in i..Len(s) : IncludeMatchAt(s, n).ok}
  IN  IF hits = {} THEN Slice(s, i, Len(s))
      ELSE LET m == IncludeMatchAt(s, Min(hits))
           IN  Slice(s, i, Min(hits) - 1)
                 \o m.prefix \o <<"(", QUOTE>> \o AdjustedPath(m.path)
                 \o <<QUOTE, ")">>
                 \o AdjustIncludesFrom_DoubleQuotes(s, m.next)

\* re.sub(pattern, adjust_include_path, adjusted_body): the leftmost match
\* from i is replaced and the search goes on after it
RECURSIVE AdjustIncludesFrom(_, _)
AdjustIncludesFrom(s, i) ==
  LET hits == {n \in i..Len(s) : IncludeMatchAt(s, n).ok}
  IN  IF hits = {} THEN Slice(s, i, Len(s))
      ELSE LET m == IncludeMatchAt(s, Min(hits))
           IN  Slice(s, i, Min(hits) - 1)
                 \o m.prefix \o <<"(", m.quote>> \o AdjustedPath(m.path)
                 \o <<m.quote, ")">> \o AdjustIncludesFrom(s, m.next)

\* adjusted_body; an original_file_dir of None is the empty path
AdjustedBody(module_dir, test_body, original_file_dir) ==
  IF original_file_dir # <<>> /\ original_file_dir # module_dir
  THEN AdjustIncludesFrom(test_body, 1)
  ELSE test_body

\* no newline written after an empty body
TestsFileContent_EmptyStaysEmpty(module_dir, test_body, original_file_dir) ==
  LET adjusted_body == AdjustedBody(module_dir, test_body, original_file_dir)
  IN  IF adjusted_body # <<>> /\ ~EndsWith(adjusted_body, <<NL>>)
      THEN adjusted_body \o <<NL>>
      ELSE adjusted_body

\* what the two f.write calls put into tests.rs
TestsFileContent(module_dir, test_body, original_file_dir) ==
  LET adjusted_body == AdjustedBody(module_dir, test_body, original_file_dir)
  IN  IF ~EndsWith(adjusted_body, <<NL>>) THEN adjusted_body \o <<NL>>
      ELSE adjusted_body

\* os.path.join(module_dir, "tests.rs")
TestsFilePath(module_dir) == Append(module_dir, TestsRs)

\* os.makedirs(module_dir, exist_ok=True)
MakeDirs(d, module_dir) ==
  d \cup {SubSeq(module_dir, 1, n) : n \in 1..Len(module_dir)}

\* the file opened for appending
WriteFile_Append(f, path, data) ==
  [p \in DOMAIN f \cup {path} |->
     IF p = path THEN (IF path \in DOMAIN f THEN f[path] ELSE <<>>) \o data
     ELSE f[p]]

\* open(path, "w").write(data) on the file function f
WriteFile(f, path, data) ==
  [p \in DOMAIN f \cup {path} |-> IF p = path THEN data ELSE f[p]]

(***************************************************************************)
(* replace_test_module_with_mod_reference                                  *)
(***************************************************************************)
CfgTestLine == CfgTestMarker \o <<NL>>

\* f"{indent}#[cfg(test)]\n{indent}mod {module_name};\n"
Replacement(test_module) ==
  test_module.indent \o CfgTestLine \o test_module.indent \o ModKeyword
    \o <<" ">> \o test_module.module_name \o <<";", NL>>

\* a text that does not hold the module gets the reference at its end
ReplacedContent_AppendIfAbsent(text, tm) ==
  IF Contains(text, tm.content)
  THEN str_replace(text, tm.content, Replacement(tm))
  ELSE text \o Replacement(tm)

\* new_content
ReplacedContent(text, tm) ==
  str_replace(text, tm.content, Replacement(tm))

(***************************************************************************)
(* Paths (pathlib.Path as used by process_workspace)                       *)
(***************************************************************************)
DotRs == <<".","r","s">>

\* the characters of file names in code point order
CodeOrder ==
  <<".","0","1","2","3","4","5","6","7","8","9","_",
    "a","b","c","d","e","f","g","h","i","j","k","l","m",
    "n","o","p","q","r","s","t","u","v","w","x","y","z">>

Code(c) == CHOOSE n \in 1..Len(CodeOrder) : CodeOrder[n] = c

\* a < b for two str
TextLess(a, b) ==
  \E n \in 1..(Len(a) + 1) :
    /\ n <= Len(b)
    /\ \A k \in 1..(n - 1) : a[k] = b[k]
    /\ (n > Len(a) \/ Code(a[n]) < Code(b[n]))

\* Path.__lt__: the lists of parts compare lexicographically
PathLess(p, q) ==
  \E n \in 1..(Len(p) + 1) :
    /\ n <= Len(q)
    /\ \A k \in 1..(n - 1) : p[k] = q[k]
    /\ (n > Len(p) \/ TextLess(p[n], q[n]))

\* sorted(rs_files)
SortedPaths(S) ==
  [n \in 1..Cardinality(S) |->
     CHOOSE p \in S : Cardinality({q \in S : PathLess(q, p)}) = n - 1]

PathParent(p) == SubSeq(p, 1, Len(p) - 1)
PathName(p) == p[Len(p)]

\* Path.stem: the name without its last suffix
PathStem(p) ==
  LET name == PathName(p)
      dots == {i \in 1..Len(name) : name[i] = "."}
      i == IF dots = {} THEN 0 ELSE CHOOSE d \in dots : \A e \in dots : e <= d
  IN  IF 1 < i /\ i < Len(name) THEN SubSeq(name, 1, i - 1) ELSE name

\* src_path.rglob("*.rs") over the files of f
RGlobRs(f, src_path) ==
  {p \in DOMAIN f :
     /\ Len(p) > Len(src_path)
     /\ SubSeq(p, 1, Len(src_path)) = src_path
     /\ EndsWith(PathName(p), DotRs)}

\* only the file named tests.rs passed over
IsTestsFile_ExactName(p) == PathName(p) = TestsRs

\* rs_file.name.endswith("tests.rs") or rs_file.name == "tests.rs"
IsTestsFile(p) == EndsWith(PathName(p), TestsRs) \/ PathName(p) = TestsRs

\* the directory of the source taken for every source in it
ModuleDir_ParentOnly(rs_file) == PathParent(rs_file)

\* module_dir = rs_file.parent / rs_file.stem
ModuleDir(rs_file) == Append(PathParent(rs_file), PathStem(rs_file))

(***************************************************************************)
(* Inputs: the source file is a sequence of at most MaxLines lines drawn   *)
(* from LinePool and joined by "\n", with or without a final "\n", the     *)
(* marker being one of the lines: line 53 passes over every line of a file *)
(* without it.  The script is run, and then run once more on what it left. *)
(***************************************************************************)
MaxLines == 4

AssertLine ==
  <<"a","s","s","e","r","t","_","e","q","!","(","1",","," ","1",")",";">>
ModTestsLine == <<"m","o","d"," ","t","e","s","t","s"," ","{">>
CloseLine == <<"}">>
\* an empty module on one line
ModEmptyLine == <<"m","o","d"," ","v"," ","{","}">>
\* an indented module on one line, braces and an escaped quote in a string
ModStringLine ==
  <<" ","m","o","d"," ","u"," ","{"," ","f","(","\"","}","\\","\"","{","\"",")",";"," ","}">>

LinePool ==
  {CfgTestMarker, ModTestsLine, AssertLine, CloseLine, ModEmptyLine,
   ModStringLine, <<>>}

SourceLines ==
  {ls \in UNION {[1..n -> LinePool] : n \in 1..MaxLines} :
     \E n \in 1..Len(ls) : ls[n] = CfgTestMarker}

SourceTexts ==
  {JoinWith(ls, NL) \o tail : ls \in SourceLines, tail \in {<<>>, <<NL>>}}

SrcDir == <<<<"s","r","c">>>>
SrcA == Append(SrcDir, <<"a",".","r","s">>)

(***************************************************************************)
(* process_workspace                                                       *)
(***************************************************************************)
VARIABLES
  fs,                 \* path of each existing file |-> its content
  dirs,               \* the existing directories
  dry_run,            \* the argument of process_workspace
  pc,                 \* where process_workspace stands
  rs_files,           \* sorted(rs_files)
  fidx,               \* position of the for loop over rs_files (1-based)
  test_modules,       \* find_test_modules(str(rs_file))
  midx,               \* position of the for loop over test_modules (1-based)
  module_dir,         \* rs_file.parent / rs_file.stem
  test_body,          \* extract_test_body(test_module)
  content,            \* what replace_test_module_with_mod_reference read
  total_tests_moved,
  out,                \* what was printed about files and modules
  run,                \* "first", or "second" for the run on what the first left
  before,             \* the files and directories when the current run began
  stats,              \* counts of the current run
  prev,               \* dry_run and the counts of the run before
  moved,              \* the modules written out in this run, with what was written
  segments,           \* the pieces a body given to create_tests_file is made of
  workers,            \* buffer |-> the locals of a caller's worker relocating it
  analysis            \* the sets and range strings of coverage-diff-analysis.py

vars ==
  <<fs, dirs, dry_run, pc, rs_files, fidx, test_modules, midx, module_dir,
    test_body, content, total_tests_moved, out, run, before, stats, prev,
    moved, segments, workers, analysis>>

\* coverage-diff-analysis.py has not been called
NoAnalysis ==
  [step |-> "none", lines |-> {}, range_str |-> <<>>, parsed |-> {},
   changed |-> <<>>, uncovered |-> <<>>, intersections |-> <<>>]

\* found: descriptors returned; unclosed: declarations whose scan ran off
\* the end; writes: files written; left: descriptors whose content the
\* source still held when the loop over its modules ended
NoStats ==
  [found |-> 0, unclosed |-> 0, writes |-> 0, left |-> 0, dry_run |-> FALSE]

\* one printed item: kind, module name, first and last line, path
Printed(kind, name, lo, hi, path) ==
  [kind |-> kind, name |-> name, lo |-> lo, hi |-> hi, path |-> path]

rs_file == rs_files[fidx]
test_module == test_modules[midx]

Locals0 ==
  /\ rs_files = <<>>
  /\ fidx = 1
  /\ test_modules = <<>>
  /\ midx = 1
  /\ module_dir = <<>>
  /\ test_body = <<>>
  /\ content = <<>>
  /\ total_tests_moved = 0
  /\ out = <<>>
  /\ moved = <<>>

Init ==
  /\ fs \in {[p \in {SrcA} |-> t] : t \in SourceTexts}
  /\ dirs = {SrcDir}
  /\ dry_run \in BOOLEAN
  /\ pc = "start"
  /\ Locals0
  /\ run = "first"
  /\ before = [fs |-> fs, dirs |-> dirs]
  /\ stats = [NoStats EXCEPT !.dry_run = dry_run]
  /\ prev = NoStats
  /\ segments = <<>>
  /\ workers = <<>>
  /\ analysis = NoAnalysis

\* lines 289-309: rs_files = list(src_path.rglob("*.rs")); the directory
\* exists in every state of the model
ListFiles ==
  /\ pc = "start"
  /\ rs_files' = SortedPaths(RGlobRs(fs, SrcDir))
  /\ fidx' = 1
  /\ total_tests_moved' = 0
  /\ pc' = IF rs_files' = <<>> THEN "done" ELSE "files"
  /\ UNCHANGED <<fs, dirs, dry_run, test_modules, midx, module_dir, test_body,
                 content, out, run, before, stats, prev>>
  /\ UNCHANGED <<moved, segments, workers, analysis>>

\* lines 311-314: continue
SkipTestsFile ==
  /\ pc = "files"
  /\ fidx <= Len(rs_files)
  /\ IsTestsFile(rs_file)
  /\ fidx' = fidx + 1
  /\ UNCHANGED <<fs, dirs, dry_run, pc, rs_files, test_modules, midx,
                 module_dir, test_body, content, total_tests_moved, out, run,
                 before, stats, prev>>
  /\ UNCHANGED <<moved, segments, workers, analysis>>

\* lines 316-322
ScanFile ==
  /\ pc = "files"
  /\ fidx <= Len(rs_files)
  /\ ~IsTestsFile(rs_file)
  /\ LET scan == FindScan(rs_file, fs[rs_file])
     IN  /\ test_modules' = scan.modules
         /\ stats' = [stats EXCEPT !.found = @ + Len(scan.modules),
                                   !.unclosed = @ + scan.unclosed]
         /\ IF scan.modules = <<>>
            THEN /\ fidx' = fidx + 1
                 /\ UNCHANGED <<pc, midx, out>>
            ELSE /\ pc' = "modules"
                 /\ midx' = 1
                 /\ out' = Append(out, Printed("processing", <<>>,
                                   Len(scan.modules), 0, rs_file))
                 /\ UNCHANGED fidx
  /\ UNCHANGED <<fs, dirs, dry_run, rs_files, module_dir, test_body, content,
                 total_tests_moved, run, before, prev>>
  /\ UNCHANGED <<moved, segments, workers, analysis>>

\* what lines 330-333 print for the module at hand
Moving ==
  Printed("moving", test_module.module_name, test_module.start_line + 1,
          test_module.end_line, TestsFilePath(ModuleDir(rs_file)))

\* os.makedirs done before dry_run is looked at
DryRunModule_MakesDir ==
  /\ pc = "modules"
  /\ midx <= Len(test_modules)
  /\ dry_run
  /\ module_dir' = ModuleDir(rs_file)
  /\ dirs' = MakeDirs(dirs, ModuleDir(rs_file))
  /\ out' = out \o <<Moving, Printed("dryrun", test_module.module_name, 0, 0,
                                     TestsFilePath(ModuleDir(rs_file)))>>
  /\ total_tests_moved' = total_tests_moved + 1
  /\ midx' = midx + 1
  /\ UNCHANGED <<fs, dry_run, pc, rs_files, fidx, test_modules,
                 test_body, content, run, before, stats, prev>>
  /\ UNCHANGED <<moved, segments, workers, analysis>>

\* lines 324-333 and 350-353 with dry_run set
DryRunModule ==
  /\ pc = "modules"
  /\ midx <= Len(test_modules)
  /\ dry_run
  /\ module_dir' = ModuleDir(rs_file)
  /\ out' = out \o <<Moving, Printed("dryrun", test_module.module_name, 0, 0,
                                     TestsFilePath(ModuleDir(rs_file)))>>
  /\ total_tests_moved' = total_tests_moved + 1
  /\ midx' = midx + 1
  /\ UNCHANGED <<fs, dirs, dry_run, pc, rs_files, fidx, test_modules,
                 test_body, content, run, before, stats, prev>>
  /\ UNCHANGED <<moved, segments, workers, analysis>>

\* lines 324-337 with dry_run clear
ExtractBody ==
  /\ pc = "modules"
  /\ midx <= Len(test_modules)
  /\ ~dry_run
  /\ module_dir' = ModuleDir(rs_file)
  /\ out' = Append(out, Moving)
  /\ test_body' = extract_test_body(test_module)
  /\ pc' = "create"
  /\ UNCHANGED <<fs, dirs, dry_run, rs_files, fidx, test_modules, midx,
                 content, total_tests_moved, run, before, stats, prev>>
  /\ UNCHANGED <<moved, segments, workers, analysis>>

\* the source rewritten where the destination is to be written
CreateTestsFile_RewritesSource ==
  /\ pc = "create"
  /\ fs' = WriteFile(fs, rs_file, ReplacedContent(fs[rs_file], test_module))
  /\ stats' = [stats EXCEPT !.writes = @ + 1]
  /\ pc' = "replace"
  /\ UNCHANGED <<dirs, dry_run, rs_files, fidx, test_modules, midx, module_dir,
                 test_body, content, total_tests_moved, out, run, before,
                 prev, moved, segments, workers, analysis>>

\* lines 340-342: create_tests_file(str(module_dir), test_body,
\* str(rs_file.parent)), lines 224-257
CreateTestsFile ==
  /\ pc = "create"
  /\ dirs' = MakeDirs(dirs, module_dir)
  /\ fs' = WriteFile(fs, TestsFilePath(module_dir),
                     TestsFileContent(module_dir, test_body,
                                      PathParent(rs_file)))
  /\ stats' = [stats EXCEPT !.writes = @ + 1]
  /\ moved' = Append(moved, [tests_file |-> TestsFilePath(module_dir),
                              written |-> fs'[TestsFilePath(module_dir)]])
  /\ pc' = "replace"
  /\ UNCHANGED <<dry_run, rs_files, fidx, test_modules, midx, module_dir,
                 test_body, content, total_tests_moved, out, run, before,
                 prev, segments, workers, analysis>>

\* lines 345-349 and 353: replace_test_module_with_mod_reference(
\* str(rs_file), test_module), lines 268-282
ReplaceModule ==
  /\ pc = "replace"
  /\ content' = fs[rs_file]
  /\ fs' = WriteFile(fs, rs_file, ReplacedContent(fs[rs_file], test_module))
  /\ stats' = [stats EXCEPT !.writes = @ + 1]
  /\ out' = Append(out, Printed("created", test_module.module_name, 0, 0,
                                TestsFilePath(module_dir)))
  /\ total_tests_moved' = total_tests_moved + 1
  /\ midx' = midx + 1
  /\ pc' = "modules"
  /\ UNCHANGED <<dirs, dry_run, rs_files, fidx, test_modules, module_dir,
                 test_body, run, before, prev>>
  /\ UNCHANGED <<moved, segments, workers, analysis>>

\* line 355: the modules of this file are done
EndFile ==
  /\ pc = "modules"
  /\ midx > Len(test_modules)
  /\ fidx' = fidx + 1
  /\ pc' = "files"
  /\ stats' = [stats EXCEPT !.left = @ + Cardinality(
                 {n \in 1..Len(test_modules) :
                    Contains(fs[rs_file], test_modules[n].content)})]
  /\ UNCHANGED <<fs, dirs, dry_run, rs_files, test_modules, midx, module_dir,
                 test_body, content, total_tests_moved, out, run, before,
                 prev>>
  /\ UNCHANGED <<moved, segments, workers, analysis>>

\* lines 357-359
Summary ==
  /\ pc = "files"
  /\ fidx > Len(rs_files)
  /\ out' = Append(out, Printed("summary", <<>>, total_tests_moved, 0, <<>>))
  /\ pc' = "done"
  /\ UNCHANGED <<fs, dirs, dry_run, rs_files, fidx, test_modules, midx,
                 module_dir, test_body, content, total_tests_moved, run,
                 before, stats, prev>>
  /\ UNCHANGED <<moved, segments, workers, analysis>>

\* lines 362-381: the same command is given again on the tree it left
Rerun ==
  /\ pc = "done"
  /\ run = "first"
  /\ run' = "second"
  /\ pc' = "start"
  /\ rs_files' = <<>>
  /\ fidx' = 1
  /\ test_modules' = <<>>
  /\ midx' = 1
  /\ module_dir' = <<>>
  /\ test_body' = <<>>
  /\ content' = <<>>
  /\ total_tests_moved' = 0
  /\ out' = <<>>
  /\ moved' = <<>>
  /\ before' = [fs |-> fs, dirs |-> dirs]
  /\ prev' = stats
  /\ stats' = [NoStats EXCEPT !.dry_run = dry_run]
  /\ UNCHANGED <<fs, dirs, dry_run, segments, workers, analysis>>

Next ==
  \/ ListFiles
  \/ SkipTestsFile
  \/ ScanFile
  \/ DryRunModule
  \/ ExtractBody
  \/ CreateTestsFile
  \/ ReplaceModule
  \/ EndFile
  \/ Summary
  \/ Rerun

Spec == Init /\ [][Next]_vars

(***************************************************************************)
(* Properties of a run of the script on the source file src/a.rs           *)
(***************************************************************************)
DirA == Append(SrcDir, <<"a">>)
TestsA == Append(DirA, TestsRs)

\* process_workspace has relocated the last module it took up
JustReplaced == pc = "modules" /\ ~dry_run /\ midx > 1
replaced_module == test_modules[midx - 1]

ScenarioLines == <<CfgTestMarker, ModTestsLine, AssertLine, CloseLine>>
ScenarioBuffers ==
  {JoinWith(ScenarioLines, NL), JoinWith(ScenarioLines, NL) \o <<NL>>}
ScenarioStub ==
  CfgTestMarker \o <<NL>> \o <<"m","o","d"," ","t","e","s","t","s",";">>
    \o <<NL>>

C2_OneFilePerBlock ==
  (pc = "done" /\ ~dry_run /\ run = "first" /\ Len(moved) >= 2) =>
    LET outputs == {p \in DOMAIN fs :
                      Len(p) > Len(DirA) /\ SubSeq(p, 1, Len(DirA)) = DirA}
    IN  /\ \A n \in 1..Len(moved) : \E p \in outputs : fs[p] = moved[n].written
        /\ Cardinality(outputs) = Len(moved)

\* C4: a second run on a tree in which the first run replaced every block
\* it found by its stub (and met no unclosed declaration) finds no block,
\* writes no file, meets no unclosed declaration and leaves every file and
\* directory as the first run left it.
C4_RerunIdempotent ==
  (/\ run = "second"
   /\ ~dry_run
   /\ prev.found >= 1
   /\ prev.left = 0
   /\ prev.unclosed = 0) =>
    /\ stats.found = 0
    /\ stats.writes = 0
    /\ stats.unclosed = 0
    /\ fs = before.fs
    /\ dirs = before.dirs
    /\ pc \in {"start", "files", "done"}

C4_Witness ==
  /\ run = "second"
  /\ pc = "done"
  /\ ~dry_run
  /\ prev.found >= 2
  /\ prev.left = 0
  /\ prev.unclosed = 0
  /\ TestsA \in DOMAIN fs

\* C5: in dry-run mode no directory is created, no file is written and the
\* source keeps its content, while every block found is printed with its
\* name, its span of lines and the destination path.
C5_DryRunFrame ==
  dry_run =>
    /\ fs = before.fs
    /\ dirs = before.dirs
    /\ stats.writes = 0
    /\ (pc = "modules" /\ midx > Len(test_modules)) =>
         \A n \in 1..Len(test_modules) :
           \E k \in 1..Len(out) :
             /\ out[k].kind = "moving"
             /\ out[k].name = test_modules[n].module_name
             /\ out[k].lo = test_modules[n].start_line + 1
             /\ out[k].hi = test_modules[n].end_line
             /\ out[k].path = TestsA
    /\ pc = "done" =>
         Cardinality({k \in 1..Len(out) : out[k].kind = "moving"}) = stats.found

C5_Witness ==
  /\ dry_run
  /\ pc = "done"
  /\ run = "first"
  /\ stats.found = 2
  /\ total_tests_moved = 2

\* C9: when the source no longer holds the descriptor's content, the
\* replacement leaves the source as it read it.
C9_AbsentIsNoOp ==
  (JustReplaced /\ ~Contains(content, replaced_module.content)) =>
    /\ fs[rs_file] = content
    /\ DOMAIN fs = DOMAIN before.fs \cup {TestsA}

C9_Witness ==
  /\ JustReplaced
  /\ ~Contains(content, replaced_module.content)
  /\ fs[SrcA] # before.fs[SrcA]

\* C10: replacing a descriptor of the buffer as scanned keeps the lines
\* before start_line and the lines from end_line on and puts exactly one
\* stub between them.
C10_OwnSpanOnly ==
  (JustReplaced /\ midx = 2 /\ run = "first") =>
    LET lines == readlines(content)
    IN  fs[rs_file] =
          Join(SubSeq(lines, 1, replaced_module.start_line))
            \o Replacement(replaced_module)
            \o Join(SubSeq(lines, replaced_module.end_line + 1, Len(lines)))

\* C11: after the k-th of the n descriptors of one scan has been relocated,
\* the source holds the stubs of the first k descriptors and still holds the
\* content of each of the other n - k; after the n-th it holds the content
\* of none of them.
C11_NoReplacementLost ==
  (JustReplaced /\ run = "first") =>
    LET k == midx - 1
        n == Len(test_modules)
    IN  /\ \A d \in 1..k :
             Contains(fs[rs_file], Replacement(test_modules[d]))
        /\ \A d \in (k + 1)..n :
             Contains(fs[rs_file], test_modules[d].content)
        /\ k = n =>
             \A d \in 1..n : ~Contains(fs[rs_file], test_modules[d].content)

\* the part of C11 about the stubs alone: no stub written earlier is lost
C11_StubsKept ==
  (JustReplaced /\ run = "first") =>
    \A d \in 1..(midx - 1) :
      Contains(fs[rs_file], Replacement(test_modules[d]))

\* C12: the step that writes the destination leaves the source as it was
\* and leaves the run between the two steps with the destination present;
\* every step that changes the source is taken from there, with the
\* destination already holding the body of the block being replaced.
C12_WriteBeforeRewrite ==
  [][/\ pc = "create" =>
          /\ pc' = "replace"
          /\ fs'[SrcA] = fs[SrcA]
          /\ TestsA \in DOMAIN fs'
     /\ fs'[SrcA] # fs[SrcA] =>
          /\ pc = "replace"
          /\ TestsA \in DOMAIN fs
          /\ fs[TestsA] =
               TestsFileContent(DirA, extract_test_body(test_module), SrcDir)
    ]_vars

C12_Witness ==
  /\ pc = "replace"
  /\ run = "first"
  /\ midx = 2
  /\ TestsA \in DOMAIN fs
  /\ fs[TestsA] = TestsFileContent(DirA, extract_test_body(test_module), SrcDir)
  /\ fs[TestsA] # TestsFileContent(DirA, extract_test_body(test_modules[1]),
                                   SrcDir)
  /\ Contains(fs[SrcA], test_module.content)
  /\ fs[SrcA] = ReplacedContent(before.fs[SrcA], test_modules[1])

(***************************************************************************)
(* create_tests_file called on its own: the body is put together from at   *)
(* most MaxSegments pieces of SegmentPool, the file of origin is src/a.rs, *)
(* the destination directory is src/a or src itself, and the destination   *)
(* file is absent or holds older text.                                     *)
(***************************************************************************)
MaxSegments == 2

SegFixture ==
  <<"i","n","c","l","u","d","e","_","s","t","r","!","(","\"","f","i","x","t","u","r","e",".","t","x","t","\"",")">>
SegFixtureUp ==
  <<"i","n","c","l","u","d","e","_","s","t","r","!","(","\"",".",".","/","f","i","x","t","u","r","e",".","t","x","t","\"",")">>
SegParent ==
  <<"i","n","c","l","u","d","e","_","b","y","t","e","s","!","(","\"",".",".","/","x","\"",")">>
SegAbsolute ==
  <<"i","n","c","l","u","d","e","_","s","t","r","!","(","\"","/","r","\"",")">>
SegLiteral == <<"l","e","t"," ","s"," ","="," ","\"","a",".","t","x","t","\"",";">>
SegOddQuote ==
  <<"i","n","c","l","u","d","e","_","s","t","r","!","(","\"","a","'","b","\"",")">>
SegApos ==
  <<"i","n","c","l","u","d","e","_","b","y","t","e","s","!","(","'","q","'",")">>
SegAposUp ==
  <<"i","n","c","l","u","d","e","_","b","y","t","e","s","!","(","'",".",".","/","q","'",")">>
SegNewline == <<NL>>

SegmentPool ==
  {SegFixture, SegParent, SegAbsolute, SegLiteral, SegOddQuote, SegApos,
   SegNewline}

SegmentSeqs == UNION {[1..n -> SegmentPool] : n \in 0..MaxSegments}

OlderText == <<"o","l","d">>

InitCreate ==
  /\ segments \in SegmentSeqs
  /\ workers = <<>>
  /\ analysis = NoAnalysis
  /\ test_body = Join(segments)
  /\ module_dir \in {DirA, SrcDir}
  /\ fs \in {[p \in {SrcA} |-> <<>>]} \cup
             {[p \in {SrcA, TestsFilePath(module_dir)} |->
                 IF p = SrcA THEN <<>> ELSE old] : old \in {<<>>, OlderText}}
  /\ dirs = {SrcDir}
  /\ dry_run = FALSE
  /\ pc = "create"
  /\ rs_files = <<SrcA>>
  /\ fidx = 1
  /\ test_modules = <<>>
  /\ midx = 1
  /\ content = <<>>
  /\ total_tests_moved = 0
  /\ out = <<>>
  /\ moved = <<>>
  /\ run = "first"
  /\ before = [fs |-> fs, dirs |-> dirs]
  /\ stats = NoStats
  /\ prev = NoStats

\* create_tests_file called once more with the same arguments
CreateTestsFileAgain ==
  /\ pc = "replace"
  /\ Len(moved) = 1
  /\ dirs' = MakeDirs(dirs, module_dir)
  /\ fs' = WriteFile(fs, TestsFilePath(module_dir),
                     TestsFileContent(module_dir, test_body,
                                      PathParent(rs_file)))
  /\ stats' = [stats EXCEPT !.writes = @ + 1]
  /\ moved' = Append(moved, [tests_file |-> TestsFilePath(module_dir),
                              written |-> fs'[TestsFilePath(module_dir)]])
  /\ UNCHANGED <<dry_run, pc, rs_files, fidx, test_modules, midx, module_dir,
                 test_body, content, total_tests_moved, out, run, before,
                 prev, segments, workers, analysis>>

NextCreate == CreateTestsFile \/ CreateTestsFileAgain

SpecCreate == InitCreate /\ [][NextCreate]_vars

\* create_tests_file has returned
Created == pc = "replace" /\ segments # <<>>
CreatedEmpty == pc = "replace" /\ test_body = <<>>
tests_file == TestsFilePath(module_dir)
original_file_dir == PathParent(rs_file)
DirsDiffer == original_file_dir # module_dir

\* the calls include_str!("<path>") / include_bytes!("<path>") of the pool
\* and what the rewriting is to make of each piece
DoubleQuotedCalls == {SegFixture, SegParent, SegAbsolute}
Rewritten(seg) ==
  IF seg = SegFixture THEN SegFixtureUp
  ELSE IF seg = SegApos THEN SegAposUp
  ELSE seg
Expected(seg) == IF DirsDiffer THEN Rewritten(seg) ELSE seg

\* where the n-th piece starts in the file, less one
RECURSIVE ExpectedOffset(_)
ExpectedOffset(n) ==
  IF n = 1 THEN 0 ELSE ExpectedOffset(n - 1) + Len(Expected(segments[n - 1]))

\* the part of the file that stands for the n-th piece
WrittenPiece(n) ==
  LET from == ExpectedOffset(n) + 1
      to == ExpectedOffset(n) + Len(Expected(segments[n]))
  IN  IF to <= Len(fs[tests_file]) THEN Slice(fs[tests_file], from, to)
      ELSE <<>>

C8_OnlyPathsChange ==
  Created =>
    LET changed == {n \in 1..Len(segments) :
                      WrittenPiece(n) # segments[n]}
        final == IF EndsWith(test_body, <<NL>>) THEN 0 ELSE 1
    IN  /\ \A n \in changed :
             LET quote == FindFrom(segments[n], <<"(">>, 1) + 1
             IN  /\ DirsDiffer
                 /\ segments[n] \in {SegFixture, SegApos}
                 /\ WrittenPiece(n) =
                      SubSeq(segments[n], 1, quote) \o ParentPrefix
                        \o Slice(segments[n], quote + 1, Len(segments[n]))
        /\ \A n \in 1..Len(segments) :
             segments[n] \in {SegLiteral, SegOddQuote, SegNewline} =>
               n \notin changed
        /\ Len(fs[tests_file]) =
             Len(test_body) + Len(ParentPrefix) * Cardinality(changed) + final

C8_Witness ==
  /\ Created
  /\ DirsDiffer
  /\ segments = <<SegOddQuote, SegFixture>>
  /\ fs[tests_file] = SegOddQuote \o SegFixtureUp \o <<NL>>

\* C25: whether the destination was absent, empty or held other text,
\* after create_tests_file it holds the rewritten body, with a newline after
\* it unless it ends in one, and nothing else; a second call with the same
\* arguments writes the same and leaves the file as the first call left it;
\* no other file is changed.
C25_Overwrites ==
  pc = "replace" =>
    LET adjusted == AdjustedBody(module_dir, test_body, original_file_dir)
    IN  /\ fs[tests_file] =
             adjusted \o (IF EndsWith(adjusted, <<NL>>) THEN <<>> ELSE <<NL>>)
        /\ \A n \in 1..Len(moved) : moved[n].written = fs[tests_file]
        /\ DOMAIN fs = DOMAIN before.fs \cup {tests_file}
        /\ \A p \in DOMAIN before.fs \ {tests_file} : fs[p] = before.fs[p]

\* the second call has returned; the destination held other text before
\* the first
C25_Witness ==
  /\ pc = "replace"
  /\ Len(moved) = 2
  /\ tests_file \in DOMAIN before.fs
  /\ before.fs[tests_file] = OlderText
  /\ segments = <<SegFixture>>
  /\ fs[tests_file] # OlderText

(***************************************************************************)
(* The descriptors of one scan relocated in any order: process_workspace   *)
(* with the order of the loop of line 324 left open.  No tests.rs exists   *)
(* before the run and the script runs once, not in dry-run mode.           *)
(***************************************************************************)
OrdersOf(modules) ==
  {[n \in 1..Len(modules) |-> modules[perm[n]]] :
     perm \in Permutations(1..Len(modules))}

\* lines 316-322, then the modules taken in some order
ScanFileAnyOrder ==
  /\ pc = "files"
  /\ fidx <= Len(rs_files)
  /\ ~IsTestsFile(rs_file)
  /\ LET scan == FindScan(rs_file, fs[rs_file])
     IN  /\ test_modules' \in OrdersOf(scan.modules)
         /\ stats' = [stats EXCEPT !.found = @ + Len(scan.modules),
                                   !.unclosed = @ + scan.unclosed]
         /\ IF scan.modules = <<>>
            THEN /\ fidx' = fidx + 1
                 /\ UNCHANGED <<pc, midx, out>>
            ELSE /\ pc' = "modules"
                 /\ midx' = 1
                 /\ out' = Append(out, Printed("processing", <<>>,
                                   Len(scan.modules), 0, rs_file))
                 /\ UNCHANGED fidx
  /\ UNCHANGED <<fs, dirs, dry_run, rs_files, module_dir, test_body, content,
                 total_tests_moved, run, before, prev>>
  /\ UNCHANGED <<moved, segments, workers, analysis>>

InitOrder == Init /\ ~dry_run

NextOrder ==
  \/ ListFiles
  \/ ScanFileAnyOrder
  \/ ExtractBody
  \/ CreateTestsFile
  \/ ReplaceModule
  \/ EndFile
  \/ Summary

SpecOrder == InitOrder /\ [][NextOrder]_vars

\* extract, write, replace for one descriptor of src/a.rs on the files f
RelocatedOne(f, tm) ==
  LET written == WriteFile(f, TestsA,
                   TestsFileContent(DirA, extract_test_body(tm), SrcDir))
  IN  WriteFile(written, SrcA, ReplacedContent(written[SrcA], tm))

RECURSIVE RelocatedAll(_, _)
RelocatedAll(f, modules) ==
  IF modules = <<>> THEN f
  ELSE RelocatedAll(RelocatedOne(f, Head(modules)), Tail(modules))

\* C3: whatever the order in which the descriptors of one scan are
\* relocated, the source and every destination file end up as they do when
\* the descriptors are relocated in the order of the scan.
C3_OrderIndependent ==
  pc = "done" =>
    fs = RelocatedAll(before.fs, find_test_modules(SrcA, before.fs[SrcA]))

(***************************************************************************)
(* process_workspace with input and output that can fail.  The tree holds  *)
(* src/a.rs and src/b.rs; each open, makedirs and write of the script may  *)
(* raise OSError (open for reading may also raise UnicodeDecodeError).     *)
(* The script has no try statement: the exception leaves process_workspace *)
(* and main, and the interpreter ends the run (pc = "raised").             *)
(***************************************************************************)
SrcB == Append(SrcDir, <<"b",".","r","s">>)

\* the scenario buffer, with and without its last newline, and a buffer
\* without a block
IoTexts == ScenarioBuffers \cup {AssertLine \o <<NL>>}

InitIO ==
  /\ fs \in {[p \in {SrcA, SrcB} |-> IF p = SrcA THEN ta ELSE tb] :
               ta \in IoTexts, tb \in IoTexts}
  /\ dirs = {SrcDir}
  /\ dry_run = FALSE
  /\ pc = "start"
  /\ Locals0
  /\ run = "first"
  /\ before = [fs |-> fs, dirs |-> dirs]
  /\ stats = NoStats
  /\ prev = NoStats
  /\ segments = <<>>
  /\ workers = <<>>
  /\ analysis = NoAnalysis

\* line 316 with the open or the readlines of lines 43-44 raising
ScanFileRaises ==
  /\ pc = "files"
  /\ fidx <= Len(rs_files)
  /\ ~IsTestsFile(rs_file)
  /\ pc' = "raised"
  /\ UNCHANGED <<fs, dirs, dry_run, rs_files, fidx, test_modules, midx,
                 module_dir, test_body, content, total_tests_moved, out, run,
                 before, stats, prev, moved, segments, workers, analysis>>

\* lines 340-342 with makedirs (line 224), the open (line 252) or a write
\* (lines 253-255) raising: nothing done yet, the directories made, or the
\* directories made and the file opened, which leaves it empty
CreateTestsFileRaises ==
  /\ pc = "create"
  /\ \/ UNCHANGED <<fs, dirs>>
     \/ /\ dirs' = MakeDirs(dirs, module_dir)
        /\ UNCHANGED fs
     \/ /\ dirs' = MakeDirs(dirs, module_dir)
        /\ fs' = WriteFile(fs, TestsFilePath(module_dir), <<>>)
  /\ pc' = "raised"
  /\ UNCHANGED <<dry_run, rs_files, fidx, test_modules, midx, module_dir,
                 test_body, content, total_tests_moved, out, run, before,
                 stats, prev, moved, segments, workers, analysis>>

\* lines 345-347 with the read (lines 268-269) or the open for writing
\* (line 279) raising, which leaves the source as it was, or the write
\* (line 280) raising after the open has emptied the source
ReplaceModuleRaises ==
  /\ pc = "replace"
  /\ \/ UNCHANGED fs
     \/ fs' = WriteFile(fs, rs_file, <<>>)
  /\ pc' = "raised"
  /\ UNCHANGED <<dirs, dry_run, rs_files, fidx, test_modules, midx,
                 module_dir, test_body, content, total_tests_moved, out, run,
                 before, stats, prev, moved, segments, workers, analysis>>

NextIO ==
  \/ ListFiles
  \/ ScanFile
  \/ ScanFileRaises
  \/ ExtractBody
  \/ CreateTestsFile
  \/ CreateTestsFileRaises
  \/ ReplaceModule
  \/ ReplaceModuleRaises
  \/ EndFile
  \/ Summary

SpecIO == InitIO /\ [][NextIO]_vars

\* the buffers other than the one the script was working on
OtherBuffers == {rs_files[n] : n \in 1..Len(rs_files)} \ {rs_file}

\* C13: when reading a buffer or writing for one of its blocks has failed
\* and the run has come to its end, the blocks of every other buffer have
\* been relocated: none of the other buffers still holds a block.
C13_FailureIsPerItem ==
  pc = "raised" =>
    \A p \in OtherBuffers : find_test_modules(p, fs[p]) = <<>>

\* the run has ended on the failure for src/a.rs with the block of src/b.rs
\* where it was
C13_Aborted ==
  /\ pc = "raised"
  /\ rs_file = SrcA
  /\ find_test_modules(SrcB, before.fs[SrcB]) # <<>>
  /\ fs[SrcB] = before.fs[SrcB]
  /\ ~ENABLED NextIO

(***************************************************************************)
(* find_test_modules and extract_test_body called on their own.  The       *)
(* buffer src/a.rs is made of at most MaxLines lines of LocatePool, one of  *)
(* them the marker.  find_test_modules is called, extract_test_body is     *)
(* called on each descriptor it returned, and find_test_modules is called  *)
(* once more; out holds what each call of find_test_modules returned.      *)
(***************************************************************************)
\* an indented module on one line whose body holds the literal "a\"{b"
ModLiteralLine ==
  <<" ","m","o","d"," ","u"," ","{"," ","f","(","\"","a","\\","\"","{","b","\"",")",";"," ","}">>
\* an empty module on one line with the closing brace of an outer one
ModEmptyCloseLine == <<"m","o","d"," ","v"," ","{","}"," ","}">>
\* a function with a lifetime parameter
LifetimeLine == <<"f","n"," ","f","<","'","a",">","(",")"," ","{","}">>

LocatePool ==
  {CfgTestMarker, ModTestsLine, CloseLine, ModEmptyLine, ModEmptyCloseLine,
   ModLiteralLine, LifetimeLine, <<>>}

LocateLines ==
  {ls \in UNION {[1..n -> LocatePool] : n \in 1..MaxLines} :
     \E n \in 1..Len(ls) : ls[n] = CfgTestMarker}

\* the lines joined by "\n"; an empty last line gives the final "\n"
LocateTexts == {JoinWith(ls, NL) : ls \in LocateLines}

InitLocate ==
  /\ fs \in {[p \in {SrcA} |-> t] : t \in LocateTexts}
  /\ dirs = {SrcDir}
  /\ dry_run = TRUE
  /\ pc = "locate"
  /\ Locals0
  /\ run = "first"
  /\ before = [fs |-> fs, dirs |-> dirs]
  /\ stats = NoStats
  /\ prev = NoStats
  /\ segments = <<>>
  /\ workers = <<>>
  /\ analysis = NoAnalysis

\* the list of an earlier call kept and added to
Locate_KeepsList ==
  /\ \/ pc = "locate"
     \/ pc = "extract" /\ midx > Len(test_modules)
  /\ test_modules' = test_modules \o find_test_modules(SrcA, fs[SrcA])
  /\ out' = Append(out, test_modules')
  /\ midx' = 1
  /\ pc' = IF pc = "locate" THEN "extract" ELSE "done"
  /\ UNCHANGED <<fs, dirs, dry_run, rs_files, fidx, module_dir, test_body,
                 content, total_tests_moved, run, before, stats, prev, moved,
                 segments, workers, analysis>>

\* test_modules = find_test_modules(str(rs_file)): the file is opened for
\* reading only and the list is built anew by each call
Locate ==
  /\ \/ pc = "locate"
     \/ pc = "extract" /\ midx > Len(test_modules)
  /\ test_modules' = find_test_modules(SrcA, fs[SrcA])
  /\ out' = Append(out, test_modules')
  /\ midx' = 1
  /\ pc' = IF pc = "locate" THEN "extract" ELSE "done"
  /\ UNCHANGED <<fs, dirs, dry_run, rs_files, fidx, module_dir, test_body,
                 content, total_tests_moved, run, before, stats, prev, moved,
                 segments, workers, analysis>>

\* test_body = extract_test_body(test_module) for the next descriptor
Extract ==
  /\ pc = "extract"
  /\ midx <= Len(test_modules)
  /\ test_body' = extract_test_body(test_module)
  /\ moved' = Append(moved, test_body')
  /\ midx' = midx + 1
  /\ UNCHANGED <<fs, dirs, dry_run, pc, rs_files, fidx, test_modules,
                 module_dir, content, total_tests_moved, out, run, before,
                 stats, prev, segments, workers, analysis>>

NextLocate == Locate \/ Extract

SpecLocate == InitLocate /\ [][NextLocate]_vars

\* the buffer and its lines as find_test_modules reads them
buffer == fs[SrcA]
buffer_lines == readlines(buffer)
Located == pc # "locate"

\* the 1-based lines a descriptor spans
FirstLine(tm) == tm.start_line + 1
LastLine(tm) == tm.end_line

DepthStart == [depth |-> 0, in_string |-> FALSE, escape_next |-> FALSE]

DepthChar(st, char) ==
  IF st.escape_next THEN [st EXCEPT !.escape_next = FALSE]
  ELSE IF char = BACKSLASH THEN [st EXCEPT !.escape_next = TRUE]
  ELSE IF char = QUOTE THEN [st EXCEPT !.in_string = ~st.in_string]
  ELSE IF st.in_string THEN st
  ELSE IF char = LBRACE THEN [st EXCEPT !.depth = st.depth + 1]
  ELSE IF char = RBRACE THEN [st EXCEPT !.depth = st.depth - 1]
  ELSE st

RECURSIVE DepthRange(_, _, _, _)
DepthRange(text, a, b, st) ==
  IF a > b THEN st
  ELSE IF a = b THEN DepthChar(st, text[a])
  ELSE LET mid == (a + b) \div 2
       IN  DepthRange(text, mid + 1, b, DepthRange(text, a, mid, st))

NetDepth(text) == DepthRange(text, 1, Len(text), DepthStart).depth

\* C15: the content of every descriptor returned by find_test_modules, the
\* marker line and the whole of the last line included, has as many opening
\* as closing braces outside its double-quoted literals.
C15_ContentBalanced ==
  Located =>
    \A n \in 1..Len(test_modules) : NetDepth(test_modules[n].content) = 0

\* the part of the content the scan has read, from the declaration to the
\* closing brace, is balanced
C15_ScannedPartBalanced ==
  Located =>
    \A n \in 1..Len(test_modules) :
      LET span == BodySpan(test_modules[n].content)
      IN  /\ span.open > 0
          /\ NetDepth(Slice(test_modules[n].content, span.open, span.close))
               = 0

\* the literal "a\"{b" of the body of ModLiteralLine
EscapedLiteral == <<"\"","a","\\","\"","{","b","\"">>

\* where a text holds the literal
LiteralAt(text) ==
  {p \in 1..Len(text) : StartsWithAt(text, EscapedLiteral, p)}

\* the scanner states and characters over which one step is checked
ScanChars == {QUOTE, APOS, BACKSLASH, LBRACE, RBRACE, NL, " ", "a"}
LocatorStates ==
  [brace_count : 0..2, in_string : BOOLEAN, escape_next : BOOLEAN,
   found_open : BOOLEAN, closed : {FALSE}]
ExtractorStates ==
  [brace_count : 1..3, in_string : BOOLEAN, escape_next : BOOLEAN,
   closed : {FALSE}, close_brace_idx : {0}]

\* what find_test_modules scans of a descriptor: its lines from the
\* declaration on, one after the other
ScannedText(tm) ==
  LET lines == readlines(tm.content)
  IN  Join(SubSeq(lines, SkipBlankLines(lines, 2), Len(lines)))

\* C16: in both scanners a brace inside a double-quoted literal leaves the
\* count as it is and the character after a backslash changes neither the
\* count nor the literal mode; a scan that comes to the literal "a\"{b" in
\* the body of a module has after it the state it had before it.
C16_LiteralKeepsDepth ==
  /\ \A st \in LocatorStates : \A char \in ScanChars :
       /\ (st.in_string /\ ~st.escape_next /\ char \in {LBRACE, RBRACE}) =>
            LocatorChar(st, char) = st
       /\ st.escape_next =>
            LocatorChar(st, char) = [st EXCEPT !.escape_next = FALSE]
  /\ \A st \in ExtractorStates : \A char \in ScanChars :
       /\ (st.in_string /\ ~st.escape_next /\ char \in {LBRACE, RBRACE}) =>
            ExtractorChar(st, char) = st
       /\ st.escape_next =>
            ExtractorChar(st, char) = [st EXCEPT !.escape_next = FALSE]
  /\ Located =>
       \A n \in 1..Len(test_modules) :
         LET text == ScannedText(test_modules[n])
             whole == test_modules[n].content
             open == FindFrom(whole, <<LBRACE>>, 1)
         IN  /\ \A p \in LiteralAt(text) :
                  LET st == LocatorRange(text, 1, p - 1, LocatorStart)
                  IN  (~st.closed /\ ~st.in_string /\ ~st.escape_next) =>
                        LocatorRange(text, 1, p + Len(EscapedLiteral) - 1,
                                     LocatorStart) = st
             /\ \A p \in LiteralAt(whole) :
                  LET st == ExtractorRange(whole, open + 1, p - 1,
                                           ExtractorStart)
                  IN  (p > open /\ ~st.closed /\ ~st.in_string
                         /\ ~st.escape_next) =>
                        ExtractorRange(whole, open + 1,
                                       p + Len(EscapedLiteral) - 1,
                                       ExtractorStart) = st

\* a module with the literal in its body has been found and its body
\* extracted, the literal in it
C16_Witness ==
  /\ pc = "extract"
  /\ midx = 2
  /\ LiteralAt(ScannedText(test_modules[1])) # {}
  /\ LocatorRange(ScannedText(test_modules[1]), 1,
                  Min(LiteralAt(ScannedText(test_modules[1]))) - 1,
                  LocatorStart).brace_count = 2
  /\ LiteralAt(test_body) # {}

\* a text with "~" in the place of every apostrophe
Neutral(text) ==
  [n \in 1..Len(text) |-> IF text[n] = APOS THEN "~" ELSE text[n]]

LifetimeBuffer ==
  JoinWith(<<CfgTestMarker, ModTestsLine, LifetimeLine, CloseLine>>, NL)

\* C17: with every apostrophe of the buffer replaced by "~" (no quote, no
\* brace, no backslash) find_test_modules returns descriptors with the same
\* spans of lines, and extract_test_body finds the same opening and closing
\* brace in each; the braces after the lifetime 'a are counted, so that the
\* module around "fn f<'a>() {}" ends at its own closing brace.
C17_ApostropheIsNeutral ==
  Located =>
    LET plain == find_test_modules(SrcA, Neutral(buffer))
    IN  /\ Len(plain) = Len(test_modules)
        /\ \A n \in 1..Len(test_modules) :
             /\ plain[n].start_line = test_modules[n].start_line
             /\ plain[n].end_line = test_modules[n].end_line
             /\ plain[n].content = Neutral(test_modules[n].content)
             /\ BodySpan(plain[n].content) = BodySpan(test_modules[n].content)
             /\ extract_test_body(plain[n]) =
                  Neutral(extract_test_body(test_modules[n]))
        /\ buffer = LifetimeBuffer =>
             /\ Len(test_modules) = 1
             /\ test_modules[1].start_line = 0
             /\ test_modules[1].end_line = 4
        /\ (buffer = LifetimeBuffer /\ moved # <<>>) =>
             moved[1] = LifetimeLine

C17_Witness ==
  /\ buffer = LifetimeBuffer
  /\ pc = "done"
  /\ Len(test_modules) = 1
  /\ moved = <<LifetimeLine>>

\* line i (1-based) is a marker line followed, blank lines apart, by a
\* declaration "mod <name> {"; DeclLine is the line of the declaration
DeclLine(lines, i) == SkipBlankLines(lines, i + 1)

PairAt(lines, i) ==
  /\ HasMarker(lines[i])
  /\ DeclLine(lines, i) <= Len(lines)
  /\ ModMatch(lines[DeclLine(lines, i)]).ok

\* the line of the closing brace of the pair at line i, 0 if there is none
ClosingLine(lines, i) == FindClose(lines, DeclLine(lines, i), LocatorStart)

UnclosedAt(lines, i) == PairAt(lines, i) /\ ClosingLine(lines, i) = 0

\* line i lies in the span of one of the descriptors
Covered(modules, i) ==
  \E n \in 1..Len(modules) :
    FirstLine(modules[n]) <= i /\ i <= LastLine(modules[n])

\* descriptors of a scan of the lines after line i, numbered as in the
\* whole buffer
Shifted(modules, i) ==
  [n \in 1..Len(modules) |->
     [modules[n] EXCEPT !.start_line = @ + i, !.end_line = @ + i]]

StartsAfter(tm, i) == tm.start_line >= i

\* C18: a marker/declaration pair without a closing brace before the end
\* of the buffer gives no descriptor, and the scan goes on from the line
\* after its marker: the descriptors that start after the marker are those
\* of a scan of the buffer from that line on.
C18_UnclosedIsSkipped ==
  Located =>
    \A i \in 1..Len(buffer_lines) :
      UnclosedAt(buffer_lines, i) =>
        /\ \A n \in 1..Len(test_modules) : test_modules[n].start_line # i - 1
        /\ ~Covered(test_modules, i) =>
             SelectSeq(test_modules, LAMBDA tm : StartsAfter(tm, i)) =
               Shifted(find_test_modules(SrcA,
                         Join(SubSeq(buffer_lines, i + 1,
                                     Len(buffer_lines)))), i)

\* an unclosed pair on the first line, a module found after it
C18_Witness ==
  /\ Located
  /\ UnclosedAt(buffer_lines, 1)
  /\ Len(test_modules) = 1
  /\ test_modules[1].start_line >= 2

\* C19: the descriptors of one call come in the order of their lines and
\* do not overlap: each starts at or after the end_line of the one before
\* it; a marker/declaration pair inside the span of a descriptor gets no
\* descriptor of its own.
C19_IncreasingDisjoint ==
  Located =>
    /\ \A n \in 1..Len(test_modules) :
         test_modules[n].start_line < test_modules[n].end_line
    /\ \A n \in 1..(Len(test_modules) - 1) :
         test_modules[n + 1].start_line >= test_modules[n].end_line
    /\ \A i \in 1..Len(buffer_lines) :
         (/\ PairAt(buffer_lines, i)
          /\ \E n \in 1..Len(test_modules) :
               FirstLine(test_modules[n]) < i /\ i <= LastLine(test_modules[n]))
         => \A n \in 1..Len(test_modules) : FirstLine(test_modules[n]) # i

\* a closed pair on line 3 inside the one module found, which starts on
\* line 1
C19_Witness ==
  /\ Located
  /\ Len(buffer_lines) = 4
  /\ PairAt(buffer_lines, 3)
  /\ ClosingLine(buffer_lines, 3) = 4
  /\ Len(test_modules) = 1
  /\ test_modules[1].start_line = 0
  /\ test_modules[1].end_line = 4

\* C20: when the first marker line of the buffer is followed by one or more
\* blank lines and then by a declaration "<indent>mod <name> {" whose
\* closing brace is found, the first descriptor starts at the marker line,
\* ends at the line of the closing brace, holds every line between the two
\* (the blank lines among them), and has the name and the indent of the
\* declaration.
C20_BlankLinesSkipped ==
  Located =>
    \A i \in 1..Len(buffer_lines) : \A j \in (i + 2)..Len(buffer_lines) :
      (/\ \A h \in 1..(i - 1) : ~HasMarker(buffer_lines[h])
       /\ HasMarker(buffer_lines[i])
       /\ \A h \in (i + 1)..(j - 1) : IsBlank(buffer_lines[h])
       /\ ModMatch(buffer_lines[j]).ok
       /\ FindClose(buffer_lines, j, LocatorStart) > 0) =>
        LET k == FindClose(buffer_lines, j, LocatorStart)
            m == ModMatch(buffer_lines[j])
        IN  /\ test_modules # <<>>
            /\ test_modules[1].start_line = i - 1
            /\ test_modules[1].end_line = k
            /\ test_modules[1].content = Join(SubSeq(buffer_lines, i, k))
            /\ test_modules[1].module_name = m.module_name
            /\ test_modules[1].indent = m.indent

\* the marker, two blank lines and an indented declaration
C20_Witness ==
  /\ Located
  /\ buffer_lines = <<CfgTestMarker \o <<NL>>, <<NL>>, <<NL>>, ModLiteralLine>>
  /\ Len(test_modules) = 1
  /\ test_modules[1].start_line = 0
  /\ test_modules[1].end_line = 4
  /\ test_modules[1].indent = <<" ">>

\* the first call of find_test_modules has returned and nothing else has
\* been done
JustLocated == pc = "extract" /\ midx = 1

\* line i holds the marker and the first non-blank line after it, if there
\* is one, is no declaration "mod <name> {"
BareMarkerAt(lines, i) ==
  /\ HasMarker(lines[i])
  /\ LET after == {j \in (i + 1)..Len(lines) : ~IsBlank(lines[j])}
     IN  after = {} \/ ~ModMatch(lines[Min(after)]).ok

\* C21: a marker whose next non-blank line is no declaration, or that has
\* no non-blank line after it, gives no descriptor, and the scan goes on
\* from the next line: the descriptors that start after the marker are those
\* of a scan of the buffer from that line on.
C21_BareMarkerIgnored ==
  JustLocated =>
    \A i \in 1..Len(buffer_lines) :
      BareMarkerAt(buffer_lines, i) =>
        /\ \A n \in 1..Len(test_modules) : test_modules[n].start_line # i - 1
        /\ ~Covered(test_modules, i) =>
             SelectSeq(test_modules, LAMBDA tm : StartsAfter(tm, i)) =
               Shifted(find_test_modules(SrcA,
                         Join(SubSeq(buffer_lines, i + 1,
                                     Len(buffer_lines)))), i)

\* the marker before a function, the marker before a module after it
C21_Witness ==
  /\ JustLocated
  /\ buffer = JoinWith(<<CfgTestMarker, LifetimeLine, CfgTestMarker,
                         ModEmptyLine>>, NL)
  /\ BareMarkerAt(buffer_lines, 1)
  /\ Len(test_modules) = 1
  /\ test_modules[1].start_line = 2
  /\ test_modules[1].end_line = 4

\* where line n (1-based) of a text starts, less one
LineOffset(text, n) ==
  IF n > Cardinality(SepPositions(text, NL)) + 1 THEN Len(text)
  ELSE NthSep(text, NL, n - 1)

\* C22: every descriptor has start_line < end_line and its content is the
\* part of the buffer from the start of line start_line to the start of line
\* end_line (lines counted from 0), so that the buffer holds it.
C22_ContentIsSpan ==
  JustLocated =>
    \A n \in 1..Len(test_modules) :
      LET tm == test_modules[n]
      IN  /\ 0 <= tm.start_line
          /\ tm.start_line < tm.end_line
          /\ tm.end_line <= Len(buffer_lines)
          /\ tm.content = Slice(buffer, LineOffset(buffer, tm.start_line + 1) + 1,
                                LineOffset(buffer, tm.end_line + 1))
          /\ StartsWithAt(buffer, tm.content,
                          LineOffset(buffer, tm.start_line + 1) + 1)

\* the second of two modules, of more than one line, with a line after it
C22_Witness ==
  /\ JustLocated
  /\ Len(test_modules) = 1
  /\ test_modules[1].start_line = 1
  /\ test_modules[1].end_line = 3
  /\ Len(buffer_lines) = 4
  /\ test_modules[1].content = CfgTestMarker \o <<NL>> \o ModLiteralLine \o <<NL>>

(***************************************************************************)
(* process_workspace on a source whose marker line and terminator line may *)
(* hold other text: src/a.rs is made of at most MaxLines lines of          *)
(* FramePool, one of them with the marker; one run, not a dry run.         *)
(***************************************************************************)
\* the marker after a use declaration on the same line
UseMarkerLine ==
  <<"u","s","e"," ","x",";"," ","#","[","c","f","g","(","t","e","s","t",")","]">>

FramePool ==
  {CfgTestMarker, UseMarkerLine, ModTestsLine, AssertLine, CloseLine,
   ModEmptyCloseLine}

FrameLines ==
  {ls \in UNION {[1..n -> FramePool] : n \in 1..MaxLines} :
     \E n \in 1..Len(ls) : HasMarker(ls[n])}

FrameTexts == {JoinWith(ls, NL) : ls \in FrameLines}

InitFrame ==
  /\ fs \in {[p \in {SrcA} |-> t] : t \in FrameTexts}
  /\ dirs = {SrcDir}
  /\ dry_run = FALSE
  /\ pc = "start"
  /\ Locals0
  /\ run = "first"
  /\ before = [fs |-> fs, dirs |-> dirs]
  /\ stats = NoStats
  /\ prev = NoStats
  /\ segments = <<>>
  /\ workers = <<>>
  /\ analysis = NoAnalysis

NextFrame ==
  \/ ListFiles
  \/ ScanFile
  \/ ExtractBody
  \/ CreateTestsFile
  \/ ReplaceModule
  \/ EndFile
  \/ Summary

SpecFrame == InitFrame /\ [][NextFrame]_vars

\* the first module of the run has been relocated
FirstReplaced == JustReplaced /\ midx = 2 /\ run = "first"

\* the text of the source before the marker of the first module and the
\* text after the closing brace of its body, as the run found them
TextBeforeMarker ==
  LET tm == test_modules[1]
      source == before.fs[SrcA]
      off == LineOffset(source, tm.start_line + 1)
  IN  Slice(source, 1, off + FindFrom(tm.content, CfgTestMarker, 1) - 1)

TextAfterBody ==
  LET tm == test_modules[1]
      source == before.fs[SrcA]
      off == LineOffset(source, tm.start_line + 1)
  IN  Slice(source, off + BodySpan(tm.content).close + 1, Len(source))

\* C23: after the first module of a source has been relocated, the source
\* still starts with all the text that stood before the marker and still
\* ends with all the text that stood after the closing brace of the body.
C23_OutsideKept ==
  FirstReplaced =>
    /\ StartsWith(fs[SrcA], TextBeforeMarker)
    /\ EndsWith(fs[SrcA], TextAfterBody)

\* the lines before the first line of the module and the lines after its
\* last line are kept when the source holds one module
C23_OtherLinesKept ==
  (FirstReplaced /\ Len(test_modules) = 1) =>
    LET tm == test_modules[1]
        source == before.fs[SrcA]
    IN  /\ StartsWith(fs[SrcA],
                      Slice(source, 1, LineOffset(source, tm.start_line + 1)))
        /\ EndsWith(fs[SrcA],
                    Slice(source, LineOffset(source, tm.end_line + 1) + 1,
                          Len(source)))

(***************************************************************************)
(* The body of the loop over rs_files run by one worker per source, the    *)
(* steps of the workers taken in any order.  The tree holds src/a.rs and   *)
(* one of src/b.rs, src/a/c.rs and src/a/tests.rs; the sources a worker    *)
(* gets are those the loop does not skip.                                  *)
(***************************************************************************)
SrcAC == Append(DirA, <<"c",".","r","s">>)

\* one module with a body, one empty module, and both in one source
ParTexts ==
  {JoinWith(ScenarioLines, NL) \o <<NL>>,
   CfgTestLine \o ModEmptyLine \o <<NL>>,
   JoinWith(ScenarioLines, NL) \o <<NL>> \o CfgTestLine \o ModEmptyLine
     \o <<NL>>}

\* the locals of a worker that has not begun
Worker0 ==
  [pc |-> "scan", test_modules |-> <<>>, midx |-> 1, test_body |-> <<>>]

\* the sources the loop of line 311 takes up
Buffers(f) == {p \in RGlobRs(f, SrcDir) : ~IsTestsFile(p)}

InitPar ==
  /\ fs \in {[p \in {SrcA, other} |-> IF p = SrcA THEN ta ELSE tb] :
               other \in {SrcB, SrcAC, TestsA}, ta \in ParTexts,
               tb \in ParTexts}
  /\ dirs = {SrcDir} \cup (IF SrcB \in DOMAIN fs THEN {} ELSE {DirA})
  /\ dry_run = FALSE
  /\ pc = "workers"
  /\ Locals0
  /\ run = "first"
  /\ before = [fs |-> fs, dirs |-> dirs]
  /\ stats = NoStats
  /\ prev = NoStats
  /\ segments = <<>>
  /\ workers = [p \in Buffers(fs) |-> Worker0]
  /\ analysis = NoAnalysis

\* line 316 for the source p
WorkerScan(p) ==
  /\ workers[p].pc = "scan"
  /\ LET found == find_test_modules(p, fs[p])
     IN  workers' = [workers EXCEPT ![p] =
           [@ EXCEPT !.test_modules = found,
                     !.pc = IF found = <<>> THEN "done" ELSE "module"]]
  /\ UNCHANGED <<fs, dirs, dry_run, pc, rs_files, fidx, test_modules, midx,
                 module_dir, test_body, content, total_tests_moved, out, run,
                 before, stats, prev, moved, segments, analysis>>

\* line 337 for the next module of the source p
WorkerExtract(p) ==
  /\ workers[p].pc = "module"
  /\ workers' = [workers EXCEPT ![p] =
       [@ EXCEPT !.test_body =
                   extract_test_body(workers[p].test_modules[workers[p].midx]),
                 !.pc = "create"]]
  /\ UNCHANGED <<fs, dirs, dry_run, pc, rs_files, fidx, test_modules, midx,
                 module_dir, test_body, content, total_tests_moved, out, run,
                 before, stats, prev, moved, segments, analysis>>

\* lines 340-342 for the source p
WorkerCreate(p) ==
  /\ workers[p].pc = "create"
  /\ dirs' = MakeDirs(dirs, ModuleDir(p))
  /\ fs' = WriteFile(fs, TestsFilePath(ModuleDir(p)),
                     TestsFileContent(ModuleDir(p), workers[p].test_body,
                                      PathParent(p)))
  /\ workers' = [workers EXCEPT ![p] = [@ EXCEPT !.pc = "replace"]]
  /\ UNCHANGED <<dry_run, pc, rs_files, fidx, test_modules, midx,
                 module_dir, test_body, content, total_tests_moved, out, run,
                 before, stats, prev, moved, segments, analysis>>

\* lines 345-347 for the source p, and the next turn of the loop of line 324
WorkerReplace(p) ==
  /\ workers[p].pc = "replace"
  /\ fs' = WriteFile(fs, p,
                     ReplacedContent(fs[p],
                       workers[p].test_modules[workers[p].midx]))
  /\ workers' = [workers EXCEPT ![p] =
       [@ EXCEPT !.midx = @ + 1,
                 !.pc = IF workers[p].midx < Len(workers[p].test_modules)
                        THEN "module" ELSE "done"]]
  /\ UNCHANGED <<dirs, dry_run, pc, rs_files, fidx, test_modules, midx,
                 module_dir, test_body, content, total_tests_moved, out, run,
                 before, stats, prev, moved, segments, analysis>>

NextPar ==
  \E p \in DOMAIN workers :
    \/ WorkerScan(p)
    \/ WorkerExtract(p)
    \/ WorkerCreate(p)
    \/ WorkerReplace(p)

SpecPar == InitPar /\ [][NextPar]_vars

\* the files written for the source p
WrittenFor(p) == {p, TestsFilePath(ModuleDir(p))}

\* extract, write, replace for one descriptor of the source p on the tree
\* t (files and directories)
RelocatedOneOf(t, p, tm) ==
  LET written == WriteFile(t.fs, TestsFilePath(ModuleDir(p)),
                   TestsFileContent(ModuleDir(p), extract_test_body(tm),
                                    PathParent(p)))
  IN  [fs |-> WriteFile(written, p, ReplacedContent(written[p], tm)),
       dirs |-> MakeDirs(t.dirs, ModuleDir(p))]

RECURSIVE RelocatedAllOf(_, _, _)
RelocatedAllOf(t, p, modules) ==
  IF modules = <<>> THEN t
  ELSE RelocatedAllOf(RelocatedOneOf(t, p, Head(modules)), p, Tail(modules))

\* the sources taken one after the other, each scanned when its turn comes
RECURSIVE OneAfterTheOther(_, _)
OneAfterTheOther(t, paths) ==
  IF paths = <<>> THEN t
  ELSE OneAfterTheOther(
         RelocatedAllOf(t, Head(paths),
                        find_test_modules(Head(paths), t.fs[Head(paths)])),
         Tail(paths))

AllWorkersDone == \A p \in DOMAIN workers : workers[p].pc = "done"

\* C24: the files written for two different sources are different files and
\* no source is the destination of another; when all workers are done,
\* whatever the order of their steps, files and directories are those left by
\* taking the sources one after the other.
C24_BuffersIndependent ==
  /\ \A p \in DOMAIN workers : \A q \in DOMAIN workers \ {p} :
       /\ WrittenFor(p) \cap WrittenFor(q) = {}
       /\ TestsFilePath(ModuleDir(p)) \notin DOMAIN workers
  /\ AllWorkersDone =>
       LET last == OneAfterTheOther(before, SortedPaths(DOMAIN workers))
       IN  fs = last.fs /\ dirs = last.dirs

\* src/a.rs and src/a/c.rs have been relocated by two workers, each with
\* two modules
C24_Witness ==
  /\ AllWorkersDone
  /\ DOMAIN workers = {SrcA, SrcAC}
  /\ \A p \in DOMAIN workers : Len(workers[p].test_modules) = 2
  /\ TestsA \in DOMAIN fs
  /\ TestsFilePath(ModuleDir(SrcAC)) \in DOMAIN fs

(***************************************************************************)
(* find_test_modules and extract_test_body on one module with a body of    *)
(* several lines: the buffer is a marker line, a declaration, at most      *)
(* MaxBodyLines lines of BodyPool and a closing line.  The calls are those *)
(* of SpecLocate.                                                          *)
(***************************************************************************)
MaxBodyLines == 3

\* the marker after the opening of an outer module on the same line
OuterMarkerLine ==
  <<"m","o","d"," ","o"," ","{"," ","#","[","c","f","g","(","t","e","s","t",")","]">>
\* a declaration indented by one space
ModIndentedLine == <<" ","m","o","d"," ","u"," ","{">>
\* body lines: indented more than the module, not indented and with a brace
\* in a literal, with a pair of braces, of the indent alone, and empty
CallLine == <<" "," ","x","(",")",";">>
LiteralCallLine == <<"s","(","\"","}","\"",")",";">>
BlockLine == <<" "," ","i","f"," ","c"," ","{"," ","z","(",")",";"," ","}">>
IndentOnlyLine == <<" ">>
IndentedCloseLine == <<" ","}">>

BodyPool == {CallLine, LiteralCallLine, BlockLine, IndentOnlyLine, <<>>}

BodyLineSeqs == UNION {[1..n -> BodyPool] : n \in 0..MaxBodyLines}

BodyTexts ==
  {JoinWith(<<marker, declaration>> \o body \o <<closing>>, NL) :
     marker \in {CfgTestMarker, OuterMarkerLine},
     declaration \in {ModTestsLine, ModIndentedLine},
     body \in BodyLineSeqs,
     closing \in {CloseLine, IndentedCloseLine}}

InitBody ==
  /\ fs \in {[p \in {SrcA} |-> t] : t \in BodyTexts}
  /\ dirs = {SrcDir}
  /\ dry_run = TRUE
  /\ pc = "locate"
  /\ Locals0
  /\ run = "first"
  /\ before = [fs |-> fs, dirs |-> dirs]
  /\ stats = NoStats
  /\ prev = NoStats
  /\ segments = <<>>
  /\ workers = <<>>
  /\ analysis = NoAnalysis

NextBody == Locate \/ Extract

SpecBody == InitBody /\ [][NextBody]_vars

\* the least p in lo..hi at which the scan of find_test_modules over
\* text[1..p] has met the closing brace, the scan over text[1..hi] having
\* met it
RECURSIVE FirstClosed(_, _, _)
FirstClosed(text, lo, hi) ==
  IF lo >= hi THEN hi
  ELSE LET mid == (lo + hi) \div 2
       IN  IF LocatorRange(text, 1, mid, LocatorStart).closed
           THEN FirstClosed(text, lo, mid)
           ELSE FirstClosed(text, mid + 1, hi)

\* where in the content of a descriptor the declaration line starts, less
\* one, and the places in the content of the brace of the declaration and
\* of the brace at which the scan of find_test_modules stopped
ScannedOffset(tm) == Len(tm.content) - Len(ScannedText(tm))
LocatedOpen(tm) ==
  ScannedOffset(tm) + FindFrom(ScannedText(tm), <<LBRACE>>, 1)
LocatedClose(tm) ==
  ScannedOffset(tm) + FirstClosed(ScannedText(tm), 1, Len(ScannedText(tm)))

\* C27: for every descriptor extract_test_body starts from the brace of the
\* declaration and stops at the brace at which find_test_modules stopped,
\* so that it does not give up with the empty result.
C27_SameBraces ==
  JustLocated =>
    \A n \in 1..Len(test_modules) :
      LET tm == test_modules[n]
      IN  /\ BodySpan(tm.content).open = LocatedOpen(tm)
          /\ BodySpan(tm.content).close = LocatedClose(tm)

\* the same for the descriptors whose marker line holds no brace
C27_SameBracesPlainMarker ==
  JustLocated =>
    \A n \in 1..Len(test_modules) :
      LET tm == test_modules[n]
      IN  ~Contains(Slice(tm.content, 1, ScannedOffset(tm)), <<LBRACE>>) =>
            /\ BodySpan(tm.content).open = LocatedOpen(tm)
            /\ BodySpan(tm.content).close = LocatedClose(tm)

\* the line of the declaration of a descriptor, the first line after its
\* marker line that is not blank, and the buffer from that line on
DeclLineOf(tm) ==
  Min({j \in (FirstLine(tm) + 1)..Len(buffer_lines) :
         ~IsBlank(buffer_lines[j])})
FromDeclaration(tm) ==
  Join(SubSeq(buffer_lines, DeclLineOf(tm), Len(buffer_lines)))

\* the depth of braces after the first q characters of a text, the places
\* where a closing brace outside a literal takes it from one to zero, and
\* the line of a place
DepthAt(text, q) == DepthRange(text, 1, q, DepthStart).depth
Closers(text) ==
  {q \in 1..Len(text) :
     text[q] = RBRACE /\ DepthAt(text, q) = 0 /\ DepthAt(text, q - 1) = 1}
LineOf(text, q) == 1 + Cardinality({n \in 1..(q - 1) : text[n] = NL})

\* C28: the block of every descriptor ends at the first closing brace
\* outside a literal that takes the depth back to zero, counted from the
\* declaration: end_line is the line of that brace, and from the opening
\* brace of the declaration to the character before it the depth is at
\* least one.
C28_EndsAtFirstClose ==
  JustLocated =>
    \A n \in 1..Len(test_modules) :
      LET tm == test_modules[n]
          text == FromDeclaration(tm)
      IN  /\ Closers(text) # {}
          /\ LastLine(tm) = DeclLineOf(tm) - 1 + LineOf(text, Min(Closers(text)))
          /\ \A q \in FindFrom(text, <<LBRACE>>, 1)..(Min(Closers(text)) - 1) :
               DepthAt(text, q) >= 1

\* a block with a pair of braces and a brace in a literal before its end
C28_Witness ==
  /\ JustLocated
  /\ Len(test_modules) = 1
  /\ LET text == FromDeclaration(test_modules[1])
         last == Min(Closers(text))
     IN  /\ \E q \in 1..(last - 1) :
              text[q] = RBRACE /\ DepthAt(text, q - 1) = 2
         /\ \E q \in 1..(last - 1) :
              text[q] = RBRACE /\ DepthAt(text, q - 1) = DepthAt(text, q)
         /\ LastLine(test_modules[1]) = Len(buffer_lines)

\* a descriptor has gone through extract_test_body: moved[n] is the body
\* returned for test_modules[n]
Extracted == pc = "extract" /\ Len(moved) = midx - 1 /\ Len(moved) >= 1

\* the lines between the braces extract_test_body has chosen, as
\* body.split("\n") gives them, and those of them that are not blank
RawLines(tm) ==
  LET span == BodySpan(tm.content)
  IN  IF span.open = 0 THEN <<>>
      ELSE Split(Slice(tm.content, span.open + 1, span.close - 1), NL)
NonBlankLines(lines) == {n \in 1..Len(lines) : ~IsBlank(lines[n])}
Largest(S) == CHOOSE x \in S : \A y \in S : y <= x

\* C29: the body returned by extract_test_body is empty when no line
\* between the braces has anything but white space; otherwise it has one
\* line for each line from the first to the last non-blank one, so that its
\* first and last lines are not blank and it does not end in a newline,
\* and a line of it is blank exactly where the line it comes from is.
C29_BlankLinesTrimmed ==
  Extracted =>
    \A n \in 1..Len(moved) :
      LET raw == RawLines(test_modules[n])
          keep == NonBlankLines(raw)
          lines == Split(moved[n], NL)
      IN  IF keep = {} THEN moved[n] = <<>>
          ELSE /\ moved[n] # <<>>
               /\ moved[n][Len(moved[n])] # NL
               /\ ~IsBlank(lines[1])
               /\ ~IsBlank(lines[Len(lines)])
               /\ Len(lines) = Largest(keep) - Min(keep) + 1
               /\ \A m \in 1..Len(lines) :
                    IsBlank(lines[m]) <=> IsBlank(raw[Min(keep) + m - 1])

\* a body with a blank line between two non-blank ones, an empty line
\* before them and a line of one space after them
C29_Witness ==
  /\ Extracted
  /\ LET raw == RawLines(test_modules[1])
         keep == NonBlankLines(raw)
     IN  /\ keep # {}
         /\ Min(keep) = 2
         /\ raw[1] = <<>>
         /\ Largest(keep) = Len(raw) - 1
         /\ raw[Len(raw)] = <<" ">>
         /\ \E m \in Min(keep)..Largest(keep) : IsBlank(raw[m])
         /\ Len(Split(moved[1], NL)) = 3

\* a line with the indent of the module taken from its start once, if it
\* starts with it
WithoutIndent(line, indent) ==
  IF StartsWith(line, indent) THEN Slice(line, Len(indent) + 1, Len(line))
  ELSE line

\* C30: the body returned by extract_test_body has, in their order, the
\* lines from the first to the last non-blank line between the braces, each
\* without the indent of the descriptor if it starts with it, blank or
\* not, and as it is otherwise.
C30_EveryLineDedented ==
  Extracted =>
    \A n \in 1..Len(moved) :
      LET raw == RawLines(test_modules[n])
          keep == NonBlankLines(raw)
          lines == Split(moved[n], NL)
      IN  keep # {} =>
            /\ Len(lines) = Largest(keep) - Min(keep) + 1
            /\ \A m \in 1..Len(lines) :
                 lines[m] =
                   WithoutIndent(raw[Min(keep) + m - 1], test_modules[n].indent)

\* the same with the blank lines as they are
C30_NonBlankLinesDedented ==
  Extracted =>
    \A n \in 1..Len(moved) :
      LET raw == RawLines(test_modules[n])
          keep == NonBlankLines(raw)
          lines == Split(moved[n], NL)
      IN  keep # {} =>
            /\ Len(lines) = Largest(keep) - Min(keep) + 1
            /\ \A m \in 1..Len(lines) :
                 lines[m] =
                   IF IsBlank(raw[Min(keep) + m - 1])
                   THEN raw[Min(keep) + m - 1]
                   ELSE WithoutIndent(raw[Min(keep) + m - 1],
                                      test_modules[n].indent)

\* a text without its white space
NoSpace(text) == SelectSeq(text, LAMBDA c : ~IsSpace(c))

\* a body put back into its module: every line of it after the indent of
\* the descriptor, between the marker, the declaration and a closing brace
Rewrapped(tm, body) ==
  LET lines == Split(body, NL)
  IN  JoinWith(<<tm.indent \o CfgTestMarker,
                 tm.indent \o ModKeyword \o <<" ">> \o tm.module_name
                   \o <<" ", LBRACE>>>>
               \o [m \in 1..Len(lines) |-> tm.indent \o lines[m]]
               \o <<tm.indent \o <<RBRACE>>>>, NL)

\* the non-blank lines of a sequence of lines, in their order, each
\* without its white space
RECURSIVE Statements(_)
Statements(lines) ==
  IF lines = <<>> THEN <<>>
  ELSE IF IsBlank(Head(lines)) THEN Statements(Tail(lines))
  ELSE <<NoSpace(Head(lines))>> \o Statements(Tail(lines))

\* the lines between the brace of the declaration and the brace at which
\* find_test_modules stopped
LocatedLines(tm) ==
  Split(Slice(tm.content, LocatedOpen(tm) + 1, LocatedClose(tm) - 1), NL)

\* C26: for every descriptor the body returned by extract_test_body, put
\* back after the indent and between the marker, the declaration and a
\* closing brace, is the content of the descriptor but for white space,
\* and the non-blank lines between the braces of the module are those of
\* the body, in their order and but for white space.
C26_RoundTrip ==
  Extracted =>
    \A n \in 1..Len(moved) :
      /\ NoSpace(Rewrapped(test_modules[n], moved[n]))
           = NoSpace(test_modules[n].content)
      /\ Statements(Split(moved[n], NL))
           = Statements(LocatedLines(test_modules[n]))

\* the same for the descriptors with nothing but the marker before the
\* declaration and nothing after the closing brace
C26_RoundTripOfPlainSpan ==
  Extracted =>
    \A n \in 1..Len(moved) :
      LET tm == test_modules[n]
      IN  /\ NoSpace(Slice(tm.content, 1, ScannedOffset(tm))) = CfgTestMarker
          /\ IsBlank(Slice(tm.content, LocatedClose(tm) + 1, Len(tm.content)))
          => /\ NoSpace(Rewrapped(tm, moved[n])) = NoSpace(tm.content)
             /\ Statements(Split(moved[n], NL)) = Statements(LocatedLines(tm))

(***************************************************************************)
(* process_workspace on a tree that holds, beside the source a.rs, a file  *)
(* whose name ends in tests.rs: tests.rs next to the source, tests.rs in   *)
(* the directory of the module, or b_tests.rs.  Both files hold one of     *)
(* SkipTexts.  The script is run, and then run once more on what it left.  *)
(***************************************************************************)
SrcTests == Append(SrcDir, TestsRs)
SrcBTests == Append(SrcDir, <<"b","_","t","e","s","t","s",".","r","s">>)

\* a module in the body of a module
NestedBuffer ==
  JoinWith(<<CfgTestMarker, ModTestsLine, CfgTestMarker, ModEmptyLine,
             CloseLine>>, NL) \o <<NL>>

SkipTexts ==
  ScenarioBuffers \cup {AssertLine \o <<NL>>, ScenarioStub, NestedBuffer}

InitSkip ==
  /\ \E t \in {SrcTests, TestsA, SrcBTests} :
       /\ fs \in {[p \in {SrcA, t} |-> IF p = SrcA THEN ta ELSE tt] :
                    ta \in SkipTexts, tt \in SkipTexts}
       /\ dirs = IF t = TestsA THEN {SrcDir, DirA} ELSE {SrcDir}
  /\ dry_run \in BOOLEAN
  /\ pc = "start"
  /\ Locals0
  /\ run = "first"
  /\ before = [fs |-> fs, dirs |-> dirs]
  /\ stats = [NoStats EXCEPT !.dry_run = dry_run]
  /\ prev = NoStats
  /\ segments = <<>>
  /\ workers = <<>>
  /\ analysis = NoAnalysis

SpecSkip == InitSkip /\ [][Next]_vars

\* the name of the file ends in tests.rs
EndsInTestsRs(p) == EndsWith(PathName(p), TestsRs)

\* C31: process_workspace takes no file whose name ends in tests.rs as a
\* source: the loop over the modules of a file never runs for one and
\* nothing is printed about one being processed, and such a file holds
\* what it held when the run began unless create_tests_file has written
\* it as a destination, and then it holds what was written.
C31_TestsFilesNeverSources ==
  /\ pc \in {"modules", "create", "replace"} => ~EndsInTestsRs(rs_file)
  /\ \A n \in 1..Len(out) :
       out[n].kind = "processing" => ~EndsInTestsRs(out[n].path)
  /\ \A p \in DOMAIN fs :
       EndsInTestsRs(p) =>
         \/ p \in DOMAIN before.fs /\ fs[p] = before.fs[p]
         \/ \E n \in 1..Len(moved) :
              moved[n].tests_file = p /\ moved[n].written = fs[p]

\* the second run has ended on a tree where the first wrote a tests.rs
\* with a module in it, beside a b_tests.rs with a module in it
C31_Witness ==
  /\ run = "second"
  /\ pc = "done"
  /\ ~dry_run
  /\ prev.writes > 0
  /\ SrcBTests \in DOMAIN fs
  /\ find_test_modules(SrcBTests, fs[SrcBTests]) # <<>>
  /\ TestsA \in DOMAIN fs
  /\ find_test_modules(TestsA, fs[TestsA]) # <<>>
  /\ stats.found = 0

(***************************************************************************)
(* coverage-diff-analysis.py: range strings.  The texts met here hold      *)
(* digits, "-" and single spaces only.                                     *)
(***************************************************************************)
DigitChars == <<"0","1","2","3","4","5","6","7","8","9">>
DigitValue(c) == CHOOSE d \in 0..9 : DigitChars[d + 1] = c

\* str(n) for n >= 0
RECURSIVE StrOfInt(_)
StrOfInt(n) ==
  IF n < 10 THEN <<DigitChars[n + 1]>>
  ELSE StrOfInt(n \div 10) \o <<DigitChars[(n % 10) + 1]>>

\* int(text) does not raise ValueError, and its value
IsIntLiteral(text) == text # <<>> /\ \A i \in 1..Len(text) : text[i] \in Digits
RECURSIVE IntOfStr(_)
IntOfStr(text) ==
  IF text = <<>> THEN 0
  ELSE IntOfStr(SubSeq(text, 1, Len(text) - 1)) * 10
         + DigitValue(text[Len(text)])

\* range_str.split()
Words(text) == SelectSeq(Split(text, " "), LAMBDA w : w # <<>>)

\* what one part adds to lines; a part that raises ValueError adds nothing
ParsePart(part) ==
  IF Contains(part, <<"-">>)
  THEN LET pieces == Split(part, "-")
       IN  IF /\ Len(pieces) = 2
              /\ IsIntLiteral(pieces[1])
              /\ IsIntLiteral(pieces[2])
           THEN IntOfStr(pieces[1])..IntOfStr(pieces[2])
           ELSE {}
  ELSE IF IsIntLiteral(part) THEN {IntOfStr(part)} ELSE {}

parse_ranges(range_str) ==
  IF IsBlank(range_str) THEN {}
  ELSE LET parts == Words(range_str)
       IN  UNION {ParsePart(parts[n]) : n \in 1..Len(parts)}

\* sorted(lines)
SortedLines(lines) ==
  [n \in 1..Cardinality(lines) |->
     CHOOSE x \in lines : Cardinality({y \in lines : y < x}) = n - 1]

\* str(start), or f"{start}-{end}"
RangeText(start, end) ==
  IF start = end THEN StrOfInt(start)
  ELSE StrOfInt(start) \o <<"-">> \o StrOfInt(end)

\* for line in sorted_lines[1:]
RECURSIVE RangesLoop(_, _)
RangesLoop(rest, st) ==
  IF rest = <<>> THEN st
  ELSE RangesLoop(Tail(rest),
         IF Head(rest) = st.end + 1 THEN [st EXCEPT !.end = Head(rest)]
         ELSE [ranges |-> Append(st.ranges, RangeText(st.start, st.end)),
               start |-> Head(rest), end |-> Head(rest)])

\* the last range not added
ranges_to_string_WithoutLast(lines) ==
  IF lines = {} THEN <<>>
  ELSE LET sorted_lines == SortedLines(lines)
           st == RangesLoop(Tail(sorted_lines),
                            [ranges |-> <<>>, start |-> sorted_lines[1],
                             end |-> sorted_lines[1]])
       IN  JoinWith(st.ranges, " ")

ranges_to_string(lines) ==
  IF lines = {} THEN <<>>
  ELSE LET sorted_lines == SortedLines(lines)
           st == RangesLoop(Tail(sorted_lines),
                            [ranges |-> <<>>, start |-> sorted_lines[1],
                             end |-> sorted_lines[1]])
       IN  JoinWith(Append(st.ranges, RangeText(st.start, st.end)), " ")

\* changed.get(file_path, "")
DictGet(d, file_path) == IF file_path \in DOMAIN d THEN d[file_path] ELSE <<>>

find_intersections(changed, uncovered) ==
  LET intersection(file_path) ==
        parse_ranges(DictGet(changed, file_path))
          \cap parse_ranges(DictGet(uncovered, file_path))
  IN  [file_path \in {f \in DOMAIN changed \cup DOMAIN uncovered :
                        intersection(f) # {}} |->
         ranges_to_string(intersection(file_path))]

\* get_changed_lines: the range string of the hunks of one file, each hunk
\* being the start and the count of its new side, the count not 0
HunkText(hunk) ==
  IF hunk.count = 1 THEN StrOfInt(hunk.start)
  ELSE StrOfInt(hunk.start) \o <<"-">> \o StrOfInt(hunk.start + hunk.count - 1)
ChangedText(hunks) ==
  JoinWith([n \in 1..Len(hunks) |-> HunkText(hunks[n])], " ")

(***************************************************************************)
(* The lines of src/a.rs that no test has hit are a set of numbers up to   *)
(* MaxLineNo; get_uncovered_lines makes their range string, which is then  *)
(* intersected with the hunks of the diff and parsed again.  src/b.rs is   *)
(* changed at line 1 and fully covered.                                    *)
(***************************************************************************)
MaxLineNo == 11

Hunk(start, count) == [start |-> start, count |-> count]
HunkLists ==
  {<<>>, <<Hunk(1, 1)>>, <<Hunk(2, 3)>>, <<Hunk(9, 1)>>, <<Hunk(9, 3)>>,
   <<Hunk(10, 1)>>, <<Hunk(1, 1), Hunk(9, 3)>>, <<Hunk(3, 1), Hunk(4, 3)>>}

\* the lines of a list of hunks
HunkLines(hunks) ==
  UNION {hunks[n].start..(hunks[n].start + hunks[n].count - 1) :
           n \in 1..Len(hunks)}

InitRanges ==
  /\ fs = <<>>
  /\ dirs = {}
  /\ dry_run = FALSE
  /\ pc = "analysis"
  /\ Locals0
  /\ run = "first"
  /\ before = [fs |-> fs, dirs |-> dirs]
  /\ stats = NoStats
  /\ prev = NoStats
  /\ segments = <<>>
  /\ workers = <<>>
  /\ \E lines \in SUBSET (1..MaxLineNo), hunks \in HunkLists :
       analysis =
         [step |-> "lines", lines |-> lines, hunks |-> hunks,
          range_str |-> <<>>, parsed |-> {},
          changed |-> [f \in (IF hunks = <<>> THEN {SrcB} ELSE {SrcA, SrcB})
                         |-> IF f = SrcA THEN ChangedText(hunks)
                             ELSE StrOfInt(1)],
          uncovered |-> <<>>, intersections |-> <<>>]

Others ==
  <<fs, dirs, dry_run, pc, rs_files, fidx, test_modules, midx, module_dir,
    test_body, content, total_tests_moved, out, run, before, stats, prev,
    moved, segments, workers>>

\* get_uncovered_lines, lines 346-349 and 367-370:
\* ranges_str = ranges_to_string(set(uncovered_lines)), kept if not empty
RangesToString ==
  /\ analysis.step = "lines"
  /\ LET ranges_str == ranges_to_string(analysis.lines)
     IN  analysis' =
           [analysis EXCEPT
              !.step = "string",
              !.range_str = ranges_str,
              !.uncovered = IF ranges_str # <<>>
                            THEN [f \in {SrcA} |-> ranges_str] ELSE <<>>]
  /\ UNCHANGED Others

\* intersections = find_intersections(changed, uncovered), line 605
FindIntersections ==
  /\ analysis.step = "string"
  /\ analysis' =
       [analysis EXCEPT
          !.step = "intersected",
          !.intersections =
             find_intersections(analysis.changed, analysis.uncovered)]
  /\ UNCHANGED Others

\* print_analysis, line 477: lines = parse_ranges(uncovered[file_path]) for
\* the range string made by get_uncovered_lines
ParseRanges ==
  /\ analysis.step = "intersected"
  /\ analysis' = [analysis EXCEPT !.step = "parsed",
                                  !.parsed = parse_ranges(analysis.range_str)]
  /\ UNCHANGED Others

NextRanges == RangesToString \/ FindIntersections \/ ParseRanges

SpecRanges == InitRanges /\ [][NextRanges]_vars

\* the maximal runs of consecutive numbers of a set, in increasing order,
\* and their text: one number for a run of one, first-last otherwise, a
\* single space between two runs
RunStarts(S) == {a \in S : a - 1 \notin S}
RunEnd(S, a) == Min({b \in S : b >= a /\ b + 1 \notin S})
RunsText(S) ==
  LET starts == SortedLines(RunStarts(S))
  IN  JoinWith([n \in 1..Len(starts) |->
                  IF RunEnd(S, starts[n]) = starts[n] THEN StrOfInt(starts[n])
                  ELSE StrOfInt(starts[n]) \o <<"-">>
                         \o StrOfInt(RunEnd(S, starts[n]))], " ")

\* the lines of a file that are both in a hunk and without a hit
ChangedAndUncovered(f) ==
  IF f = SrcA THEN HunkLines(analysis.hunks) \cap analysis.lines ELSE {}

\* C32: for a set of line numbers from 1 on, ranges_to_string gives the
\* maximal runs in increasing order, a single number for a run of one and
\* first-last otherwise, and parse_ranges gives the set back from it;
\* find_intersections has an entry for exactly the files with a line both
\* changed and uncovered, and the entry is the range string of those lines.
C32_RangesRoundTrip ==
  /\ analysis.step \in {"string", "intersected", "parsed"} =>
       analysis.range_str = RunsText(analysis.lines)
  /\ analysis.step = "parsed" => analysis.parsed = analysis.lines
  /\ analysis.step \in {"intersected", "parsed"} =>
       /\ DOMAIN analysis.intersections
            = {f \in {SrcA, SrcB} : ChangedAndUncovered(f) # {}}
       /\ \A f \in DOMAIN analysis.intersections :
            analysis.intersections[f] = RunsText(ChangedAndUncovered(f))

\* lines 1, 3 and 9 to 11 without a hit, hunks at 1 and at 9 to 11
C32_Witness ==
  /\ analysis.step = "parsed"
  /\ analysis.lines = {1, 3, 9, 10, 11}
  /\ analysis.range_str = <<"1"," ","3"," ","9","-","1","1">>
  /\ analysis.parsed = {1, 3, 9, 10, 11}
  /\ analysis.hunks = <<Hunk(1, 1), Hunk(9, 3)>>
  /\ analysis.changed[SrcA] = <<"1"," ","9","-","1","1">>
  /\ DOMAIN analysis.intersections = {SrcA}
  /\ analysis.intersections[SrcA] = <<"1"," ","9","-","1","1">>
====
